---- MODULE Spec2Model ----
(***************************************************************************)
(* A model of sprint_report.py: the retrying transport, the paginated      *)
(* sprint-issue walker, the table builders that use it, the committed /    *)
(* completed reconciliation, the burndown and LinearB series, the          *)
(* working-day ageing, the retrospective epic's action items, schema       *)
(* discovery and the order of the steps of main.                           *)
(*                                                                         *)
(* Effort values (story points) are integers here; delays are in tenths    *)
(* of a second.  Calendar days are integers (day numbers).                 *)
(***************************************************************************)
EXTENDS Integers, Sequences, FiniteSets, TLC

VARIABLES
    rq_pc,      \* request_with_retries: "idle" | "attempting" | "returned" | "raised" | "propagated"
    rq_i,       \* the loop variable i of the current call
    rq_last,    \* last: the error of the last failed attempt ("none" = None)
    rq_body,    \* body: the attempt whose response text is held (0 = None)
    rq_hist,    \* the outcomes of the attempts of the current call, in order
    rq_slept,   \* the delays slept during the current call, in order
    rq_calls,   \* number of calls of request_with_retries so far
    rq_total,   \* number of requests.request() calls over all calls
    rq_exc,     \* the exception that left the current call ("none" type before)
    srv,        \* the upstream's behaviour for the sprint-issue listing
    attr,       \* the fields of every issue at the upstream
    w_pc,       \* the direct walker call: "idle" | "returned" | "raised"
    w_args,     \* arguments of the direct walker call
    w_res,      \* what agile_sprint_issues_paginated returned (or raised)
    t_which,    \* the table builder that ran ("none" before)
    t_res,      \* the builder's rows (or its failure), with the walk it used
    report,     \* the sprint report downloaded by main
    vel,        \* the velocity endpoint's answer
    rc_pc,      \* main's reconciliation step: "start" | "done"
    rc_out,     \* (committed_sp, completed_sp, scope_change_count, carry_over_count)
    bd_in,      \* render_burndown_png_bytes: committed_sp and the date axis
    bd_out,     \* the series computed by render_burndown_png_bytes
    lb_in,      \* main's LinearB step: the sprint dates, the token and the measurements answer
    lb_out,     \* the four day series built by main's LinearB step
    wd_in,      \* working_days_since: created_dt, today_date and the clock's date
    wd_out,     \* what working_days_since returned ({} before the call)
    ep_in,      \* fetch_epic_action_items: the epic's children and sub-tasks at the upstream, the failing requests, the clock
    ep_out,     \* what fetch_epic_action_items returned: open_rows and done_rows
    catalog,    \* the answer of the field catalog request of discover_field_ids
    mn_pc,      \* main: the step it is about to run, or "exit" | "traceback" | "done"
    mn_log,     \* main: the steps started so far, in order
    mn_ids,     \* the globals discover_field_ids set: epic link id, primary and all effort ids
    mn_tab,     \* main: what each derived-table builder gave ("none" before it ran)
    page_up,    \* the version of the report page at Confluence (0: no such page)
    mn_version, \* main: its variable version (0 before the page step)
    mn_sent     \* main: the page updates sent, each with the page's version at that moment

vars == <<rq_pc, rq_i, rq_last, rq_body, rq_hist, rq_slept, rq_calls, rq_total, rq_exc,
          srv, attr, w_pc, w_args, w_res, t_which, t_res,
          report, vel, rc_pc, rc_out, bd_in, bd_out,
          lb_in, lb_out,
          wd_in, wd_out,
          ep_in, ep_out,
          catalog, mn_pc, mn_log, mn_ids, mn_tab,
          page_up, mn_version, mn_sent>>

rqVars == <<rq_pc, rq_i, rq_last, rq_body, rq_hist, rq_slept, rq_calls, rq_total, rq_exc>>
upVars == <<srv, attr>>
wVars  == <<w_pc, w_args, w_res>>
tVars  == <<t_which, t_res>>
rcVars == <<report, vel, rc_pc, rc_out>>
bdVars == <<bd_in, bd_out>>
lbVars == <<lb_in, lb_out>>
wdVars == <<wd_in, wd_out>>
epVars == <<ep_in, ep_out>>
mnVars == <<catalog, mn_pc, mn_log, mn_ids, mn_tab>>
pgVars == <<page_up, mn_version, mn_sent>>

Min(a, b) == IF a < b THEN a ELSE b
Max(a, b) == IF a > b THEN a ELSE b

RECURSIVE Pow2(_)
Pow2(n) == IF n <= 0 THEN 1 ELSE 2 * Pow2(n - 1)

RECURSIVE SumSeq(_)
SumSeq(s) == IF s = <<>> THEN 0 ELSE Head(s) + SumSeq(Tail(s))

Range(s) == {s[j] : j \in 1..Len(s)}

(***************************************************************************)
(* HTTP HELPERS: request_with_retries                                      *)
(***************************************************************************)
RETRY_MAX_TRIES == 4

\* RETRY_BASE_DELAY = 0.8, in tenths of a second
RETRY_BASE_DELAY == 8

\* the cap 6.0 of _sleep_backoff, in tenths of a second
BACKOFF_CAP == 60

\* number of calls of request_with_retries the model follows
MaxCalls == 2

\* What one requests.request() + raise_for_status() + r.json() can do:
\*   ok          2xx and the body parses
\*   http_error  non-2xx: raise_for_status raises HTTPError (a body was received)
\*   bad_json    2xx but r.json() raises ValueError (a body was received)
\*   timeout     requests.exceptions.Timeout
\*   conn_error  requests.exceptions.ConnectionError
\*   other_exc   an exception the except clause does not name
Outcomes == {"ok", "http_error", "bad_json", "timeout", "conn_error", "other_exc"}

\* the exceptions named by the except clause
Caught == {"http_error", "bad_json", "timeout", "conn_error"}

\* outcomes in which r.text was assigned to body before the exception
WithBody == {"ok", "http_error", "bad_json"}

\* _sleep_backoff with a delay that grows by the base unit per attempt
BackoffLinear(i) == Min(RETRY_BASE_DELAY * i, BACKOFF_CAP)
\* _sleep_backoff(i): the delay, min(RETRY_BASE_DELAY * 2**(i-1), 6.0)
Backoff(i) == Min(RETRY_BASE_DELAY * Pow2(i - 1), BACKOFF_CAP)

\* `if i < RETRY_MAX_TRIES: _sleep_backoff(i)`
SleepsAfter(i) == i < RETRY_MAX_TRIES

\* `for i in range(1, RETRY_MAX_TRIES+1)`: is there an iteration after i
LoopContinuesOneMore(i) == i < RETRY_MAX_TRIES + 1
LoopContinues(i) == i < RETRY_MAX_TRIES

\* the value of i when the loop starts
FirstTry == 1

\* no exception has left the call
NoFailure == [type |-> "none", last |-> "none", body |-> {}]

\* `raise RuntimeError(f"Request failed after retries: {METHOD} {url} :: {last}")`:
\* the message holds the text of last; body goes only into the warnings
\* printed per attempt
RaisedFailure(last, body) == [type |-> "RuntimeError", last |-> last, body |-> {}]

InitRq ==
    /\ rq_pc = "idle"
    /\ rq_i = 0
    /\ rq_last = "none"
    /\ rq_body = 0
    /\ rq_hist = <<>>
    /\ rq_slept = <<>>
    /\ rq_calls = 0
    /\ rq_total = 0
    /\ rq_exc = NoFailure

\* entry of request_with_retries: last = None; body = None; i = 1
RqCall ==
    /\ rq_pc \in {"idle", "returned", "raised", "propagated"}
    /\ rq_calls < MaxCalls
    /\ rq_pc' = "attempting"
    /\ rq_i' = FirstTry
    /\ rq_last' = "none"
    /\ rq_body' = 0
    /\ rq_hist' = <<>>
    /\ rq_slept' = <<>>
    /\ rq_calls' = rq_calls + 1
    /\ rq_exc' = NoFailure
    /\ UNCHANGED rq_total

\* one iteration of the loop whose attempt succeeds: return r.json()
RqAttemptOk ==
    /\ rq_pc = "attempting"
    /\ rq_pc' = "returned"
    /\ rq_body' = rq_i
    /\ rq_hist' = Append(rq_hist, "ok")
    /\ rq_total' = rq_total + 1
    /\ UNCHANGED <<rq_i, rq_last, rq_slept, rq_calls, rq_exc>>

\* one iteration whose attempt raises an exception the except clause names
RqAttemptCaught ==
    /\ rq_pc = "attempting"
    /\ \E o \in Caught :
        /\ rq_hist' = Append(rq_hist, o)
        /\ rq_last' = o
        /\ rq_body' = IF o \in WithBody THEN rq_i ELSE rq_body
        /\ rq_exc' = IF LoopContinues(rq_i) THEN rq_exc
                      ELSE RaisedFailure(o, IF o \in WithBody THEN rq_i ELSE rq_body)
    /\ rq_total' = rq_total + 1
    /\ rq_slept' = IF SleepsAfter(rq_i) THEN Append(rq_slept, Backoff(rq_i)) ELSE rq_slept
    /\ IF LoopContinues(rq_i)
         THEN rq_i' = rq_i + 1 /\ rq_pc' = "attempting"
         ELSE rq_i' = rq_i /\ rq_pc' = "raised"
    /\ UNCHANGED rq_calls

\* one iteration whose attempt raises any other exception: it leaves the function
RqAttemptOther ==
    /\ rq_pc = "attempting"
    /\ rq_pc' = "propagated"
    /\ rq_hist' = Append(rq_hist, "other_exc")
    /\ rq_total' = rq_total + 1
    /\ rq_exc' = [type |-> "other_exc", last |-> "other_exc", body |-> {}]
    /\ UNCHANGED <<rq_i, rq_last, rq_body, rq_slept, rq_calls>>

NextRq ==
    \/ RqCall
    \/ RqAttemptOk
    \/ RqAttemptCaught
    \/ RqAttemptOther

(***************************************************************************)
(* The upstream: the issues of the sprint and how the listing endpoint     *)
(* /rest/agile/1.0/sprint/{id}/issue answers.  An optional value is a set  *)
(* with at most one element ({} is null / absent).                         *)
(*                                                                         *)
(* Where a result is used more than once it is bound as x \in {e}, so that *)
(* e is evaluated once.                                                    *)
(***************************************************************************)
\* number of issue keys
MaxIssues == 3

\* largest page_size / max_pages a caller of the walker passes in the model
MaxPageSize == 2
MaxPages == 2

Keys == 1..MaxIssues

\* the custom fields found by discover_field_ids
EPIC_LINK_FIELD_ID == "cf_epic"
SP1 == "cf_sp1"
SP2 == "cf_sp2"
STORY_POINTS_FIELD_ID == SP1
STORY_POINTS_FIELD_IDS == <<SP1, SP2>>

TD_EPIC_KEY == "GV-2398"
AUDIT_ISSUE_TYPES == {"story", "task"}
AUDIT_EXCLUDED_STATUS_NAMES == {"cancelled", "canceled", "not needed"}

\* str.strip().lower() on the names that occur
Lower(s) ==
    CASE s = "Story" -> "story"
      [] s = "Task" -> "task"
      [] s = "Bug" -> "bug"
      [] s = "Done" -> "done"
      [] s = "In Progress" -> "in progress"
      [] s = "Cancelled" -> "cancelled"
      [] s = "CANCELED" -> "canceled"
      [] s = "Not Needed" -> "not needed"
      [] OTHER -> s

\* the status category the tracker attaches to a status
StatusCategoryKey(name) ==
    CASE name = "In Progress" -> "indeterminate"
      [] name = "To Do" -> "new"
      [] OTHER -> "done"

NoJql == "none"
JQL_DONE == "statusCategory = Done"
JQL_NOT_EXCLUDED == "status not in (Cancelled, Canceled, Not Needed)"

\* the server's evaluation of a filter expression on an issue
\* (JQL compares status names case-insensitively)
JqlHolds(jql, k) ==
    CASE jql = JQL_DONE -> StatusCategoryKey(attr[k].status) = "done"
      [] jql = JQL_NOT_EXCLUDED -> Lower(attr[k].status) \notin AUDIT_EXCLUDED_STATUS_NAMES
      [] OTHER -> TRUE

\* the issue as the listing returns it: only the requested fields
IssueJson(k, fields) ==
    [key |-> k, fields |-> [x \in (fields \cap DOMAIN attr[k]) |-> attr[k][x]]]

\* the sprint's issue list when the upstream answers its reqNo-th page
\* request: from request shiftAt on, the last issue has been ranked first
ServerList(reqNo) ==
    IF srv.shiftAt # 0 /\ reqNo >= srv.shiftAt /\ Len(srv.issues) > 1
    THEN <<srv.issues[Len(srv.issues)]>> \o SubSeq(srv.issues, 1, Len(srv.issues) - 1)
    ELSE srv.issues

\* one page request, after the transport's retries:
\* ok = FALSE when get_json raised
PageRequest(reqNo, startAt, maxResults, jql, fields) ==
    IF reqNo \in srv.fails
    THEN [ok |-> FALSE, issues |-> <<>>]
    ELSE LET lst == SelectSeq(ServerList(reqNo), LAMBDA k : JqlHolds(jql, k))
             n == Min(Max(maxResults + srv.skew, 0), Max(Len(lst) - startAt, 0))
         IN [ok |-> TRUE,
             issues |-> [j \in 1..n |-> IssueJson(lst[startAt + j], fields)]]

(***************************************************************************)
(* agile_sprint_issues_paginated                                           *)
(***************************************************************************)
\* `start_at += page_size`
NextStart(start_at, page_size, chunk) == start_at + page_size

\* `if len(chunk) < page_size: break`
IsLastPage(chunk, page_size) == Len(chunk) < page_size

\* `for _ in range(max_pages)`
MorePagesAllowed(n, max_pages) == n < max_pages

\* The loop of one walk, from its n-th iteration (n pages requested so far
\* in this walk); reqNo numbers the requests over both walks.
\* Gives [issues, log, failed].
RECURSIVE WalkLoop(_, _, _, _, _, _, _, _, _, _)
WalkLoop(walk, jql, fields, max_pages, page_size, n, reqNo, issues, start_at, log) ==
    IF ~MorePagesAllowed(n, max_pages)
    THEN [issues |-> issues, log |-> log, failed |-> FALSE]
    ELSE CHOOSE out \in
        {LET chunk == data.issues
             entry == [walk |-> walk, startAt |-> start_at, maxResults |-> page_size,
                       jql |-> jql, got |-> IF data.ok THEN Len(chunk) ELSE 0 - 1,
                       keys |-> [j \in 1..Len(chunk) |-> chunk[j].key]]
         IN IF ~data.ok
            THEN [issues |-> issues, log |-> Append(log, entry), failed |-> TRUE]
            ELSE IF IsLastPage(chunk, page_size)
                 THEN [issues |-> issues \o chunk, log |-> Append(log, entry), failed |-> FALSE]
                 ELSE WalkLoop(walk, jql, fields, max_pages, page_size, n + 1, reqNo + 1,
                               issues \o chunk, NextStart(start_at, page_size, chunk),
                               Append(log, entry)) :
            data \in {PageRequest(reqNo, start_at, page_size, jql, fields)}} : TRUE

\* the filter expression of the second walk (it sets no "jql" parameter)
FallbackJqlKeep(jql_fragment) == jql_fragment
FallbackJql(jql_fragment) == NoJql

\* a second walk that goes on from the items of the first
FallbackIssuesKept(collected) == collected
\* `issues, start_at = [], 0` before the second walk
FallbackIssues(collected) == <<>>

\* `used_server_filter = False` before the second walk
FallbackUsedFlag == FALSE

\* agile_sprint_issues_paginated(sprint_id, jql_fragment, fields, max_pages, page_size)
\* Gives [issues, used, raised, log]: raised = TRUE when the exception of the
\* second walk leaves the function.
AgileSprintIssuesPaginated(jql_fragment, fields, max_pages, page_size) ==
    CHOOSE out \in
        {IF ~w1.failed
         THEN [issues |-> w1.issues, used |-> TRUE, raised |-> FALSE, log |-> w1.log]
         ELSE CHOOSE out2 \in
             {IF w2.failed
              THEN [issues |-> <<>>, used |-> FallbackUsedFlag, raised |-> TRUE,
                    log |-> w2.log]
              ELSE [issues |-> w2.issues, used |-> FallbackUsedFlag, raised |-> FALSE,
                    log |-> w2.log] :
                 w2 \in {WalkLoop(2, FallbackJql(jql_fragment), fields, max_pages,
                                  page_size, 0, Len(w1.log) + 1,
                                  FallbackIssues(w1.issues), 0, w1.log)}} : TRUE :
            w1 \in {WalkLoop(1, jql_fragment, fields, max_pages, page_size,
                             0, 1, <<>>, 0, <<>>)}} : TRUE

(***************************************************************************)
(* Direct calls of the walker against every upstream behaviour             *)
(***************************************************************************)
\* all sequences of distinct keys
RECURSIVE DistinctSeqs(_)
DistinctSeqs(S) ==
    IF S = {} THEN {<<>>}
    ELSE {<<>>} \cup UNION {{<<k>> \o t : t \in DistinctSeqs(S \ {k})} : k \in S}

\* the page requests (numbered over both walks) that fail after the
\* transport's retries: at most two of them
FailSets == {F \in SUBSET (1..(2 * MaxPages)) : Cardinality(F) <= 2}

\* skew: the server returns maxResults + skew items per page (it caps the
\* page size lower, honours it, or ignores it)
\* shiftAt: the request from which on the list is reordered (0 = never)
Servers ==
    [issues : DistinctSeqs(Keys), fails : FailSets, skew : {0 - 1, 0, 1}, shiftAt : 0..MaxPages]

AllFields == {"issuetype", "status", EPIC_LINK_FIELD_ID, SP1, SP2, "resolutiondate"}

\* fixed issue fields for the direct walker calls: the status varies with the key
WalkAttr ==
    [k \in Keys |->
        [issuetype |-> "Story",
         status |-> IF k % 2 = 1 THEN "Done" ELSE "In Progress",
         cf_epic |-> {}, cf_sp1 |-> {}, cf_sp2 |-> {}, resolutiondate |-> {}]]

NoWalk == [issues |-> <<>>, used |-> TRUE, raised |-> FALSE, log |-> <<>>]
NoArgs == [jql |-> NoJql, max_pages |-> 0, page_size |-> 0]

InitW ==
    /\ w_pc = "idle"
    /\ w_args = NoArgs
    /\ w_res = NoWalk

\* one call agile_sprint_issues_paginated(sprint_id, jql, fields, mp, ps)
WalkCall ==
    /\ w_pc = "idle"
    /\ \E jql \in {NoJql, JQL_DONE}, mp \in 1..MaxPages, ps \in 1..MaxPageSize :
        \E r \in {AgileSprintIssuesPaginated(jql, AllFields, mp, ps)} :
           /\ w_args' = [jql |-> jql, max_pages |-> mp, page_size |-> ps]
           /\ w_res' = r
           /\ w_pc' = IF r.raised THEN "raised" ELSE "returned"

NextW == WalkCall

(***************************************************************************)
(* SPRINT MATH: the sprint report and the velocity endpoint                *)
(***************************************************************************)
\* number of issue keys in the sprint report
MaxItems == 2

ItemKeys == 1..MaxItems

\* float(text) of an estimate statistic's text: {} when it raises
ParseFloat(t) ==
    CASE t = "2" -> {2}
      [] t = "0" -> {0}
      [] OTHER -> {}

\* sp(est) of build_sp_map_from_report and compute_committed_completed_from_report;
\* est is the statFieldValue: [value, text], each optional
StatSp(est) ==
    IF est.value # {} THEN CHOOSE n \in est.value : TRUE
    ELSE IF est.text # {} /\ ParseFloat(CHOOSE t \in est.text : TRUE) # {}
         THEN CHOOSE n \in ParseFloat(CHOOSE t \in est.text : TRUE) : TRUE
         ELSE 0

\* contents.completedIssues / issuesNotCompletedInCurrentSprint /
\* issueKeysAddedDuringSprint of a report
CompletedIssues(rep) == rep.completedIssues
NotCompletedIssues(rep) == rep.issuesNotCompletedInCurrentSprint
AddedMid(rep) == rep.issueKeysAddedDuringSprint

\* build_sp_map_from_report: key -> sp; a later item overwrites an earlier one
RECURSIVE SpMapOf(_, _)
SpMapOf(items, mp) ==
    IF items = <<>> THEN mp
    ELSE SpMapOf(Tail(items),
                 [k \in DOMAIN mp \cup {Head(items).key} |->
                     IF k = Head(items).key THEN StatSp(Head(items).est) ELSE mp[k]])

BuildSpMapFromReport(rep) ==
    SpMapOf(CompletedIssues(rep) \o NotCompletedIssues(rep), <<>>)

\* sp_map.get(key, 0.0)
SpMapGet(mp, key) == IF key \in DOMAIN mp THEN mp[key] ELSE 0

\* the loops `for it in ...: if it.get("key") not in added_mid: committed_sp += sp(...)`
RECURSIVE SumNotAdded(_, _)
SumNotAdded(items, added_mid) ==
    IF items = <<>> THEN 0
    ELSE (IF Head(items).key \notin added_mid THEN StatSp(Head(items).est) ELSE 0)
         + SumNotAdded(Tail(items), added_mid)

\* `sum(sp(it.get("estimateStatistic")) for it in completed)`
RECURSIVE SumAll(_)
SumAll(items) ==
    IF items = <<>> THEN 0 ELSE StatSp(Head(items).est) + SumAll(Tail(items))

\* committed_sp of compute_committed_completed_from_report
CommittedSpAll(rep) ==
    SumAll(CompletedIssues(rep)) + SumAll(NotCompletedIssues(rep))
CommittedSp(rep) ==
    SumNotAdded(CompletedIssues(rep), AddedMid(rep))
    + SumNotAdded(NotCompletedIssues(rep), AddedMid(rep))

\* completed_sp of compute_committed_completed_from_report
CompletedSp(rep) == SumAll(CompletedIssues(rep))

\* compute_committed_completed_from_report(report)
ComputeCommittedCompletedFromReport(rep) ==
    <<CommittedSp(rep), CompletedSp(rep),
      Cardinality(AddedMid(rep)), Len(NotCompletedIssues(rep))>>

\* `entries.get(str(sprint_id)) or entries.get(int(sprint_id))`:
\* {} when neither form has an entry
VelocityEntryStrOnly(v) == v.str
VelocityEntry(v) == IF v.str # {} THEN v.str ELSE v.int

\* `float((entry.get(name) or {}).get("value") or 0)`
EntryValue(opt) == IF opt = {} THEN 0 ELSE CHOOSE n \in opt : TRUE

\* get_committed_completed_from_velocity: {<<est, comp>>}, or {} for (None, None)
GetCommittedCompletedFromVelocity(v) ==
    IF ~v.ok THEN {}
    ELSE IF VelocityEntry(v) = {} THEN {}
         ELSE LET entry == CHOOSE e \in VelocityEntry(v) : TRUE
              IN {<<EntryValue(entry.estimated), EntryValue(entry.completed)>>}

\* main, "Committed/Completed from Velocity (exact), else fallback"
ReconcileCountsFromVelocity(v, rep) ==
    IF GetCommittedCompletedFromVelocity(v) # {}
    THEN LET ec == CHOOSE p \in GetCommittedCompletedFromVelocity(v) : TRUE
         IN <<ec[1], ec[2], 0, 0>>
    ELSE ComputeCommittedCompletedFromReport(rep)
ReconcileNoFallback(v, rep) ==
    IF GetCommittedCompletedFromVelocity(v) # {}
    THEN LET ec == CHOOSE p \in GetCommittedCompletedFromVelocity(v) : TRUE
             c == ComputeCommittedCompletedFromReport(rep)
         IN <<ec[1], ec[2], c[3], c[4]>>
    ELSE <<0, 0, 0, 0>>
Reconcile(v, rep) ==
    IF GetCommittedCompletedFromVelocity(v) # {}
    THEN LET ec == CHOOSE p \in GetCommittedCompletedFromVelocity(v) : TRUE
             c == ComputeCommittedCompletedFromReport(rep)
         IN <<ec[1], ec[2], c[3], c[4]>>
    ELSE ComputeCommittedCompletedFromReport(rep)

\* the estimate statistics that occur: none, a numeric value, a text that
\* parses, a text that does not, a value beside a text
EstStats ==
    {[value |-> {}, text |-> {}],
     [value |-> {0}, text |-> {}],
     [value |-> {3}, text |-> {}],
     [value |-> {}, text |-> {"2"}],
     [value |-> {}, text |-> {"n/a"}],
     [value |-> {5}, text |-> {"2"}]}

\* where[k]: the list of the report that holds key k
Reports ==
    {[completedIssues |->
          SelectSeq([k \in ItemKeys |-> [key |-> k, est |-> est[k]]],
                    LAMBDA it : where[it.key] = "completed"),
      issuesNotCompletedInCurrentSprint |->
          SelectSeq([k \in ItemKeys |-> [key |-> k, est |-> est[k]]],
                    LAMBDA it : where[it.key] = "not_completed"),
      issueKeysAddedDuringSprint |-> added] :
        where \in [ItemKeys -> {"completed", "not_completed", "absent"}],
        est \in [ItemKeys -> EstStats],
        added \in SUBSET ItemKeys}

\* an entry of velocityStatEntries: {} when the key is absent
VelocityEntries ==
    {{}} \cup {{[estimated |-> e, completed |-> c]} : e \in {{}, {0}, {7}}, c \in {{}, {4}}}

\* the velocity endpoint's answers: the call failed, or the entries under
\* the string form and the integer form of the sprint id
VelocityAnswers ==
    {[ok |-> FALSE, str |-> {}, int |-> {}]}
    \cup [ok : {TRUE}, str : VelocityEntries,
          int : {{}, {[estimated |-> {9}, completed |-> {8}]}}]

NoVelocity == [ok |-> FALSE, str |-> {}, int |-> {}]
EmptyReport ==
    [completedIssues |-> <<>>, issuesNotCompletedInCurrentSprint |-> <<>>,
     issueKeysAddedDuringSprint |-> {}]

InitRc ==
    /\ report = EmptyReport
    /\ vel = NoVelocity
    /\ rc_pc = "start"
    /\ rc_out = <<0, 0, 0, 0>>

\* main: `report = sprint_report(board["id"], sprint["id"])`
DownloadReport ==
    /\ rc_pc = "start"
    /\ report' \in Reports
    /\ rc_pc' = "report"
    /\ UNCHANGED <<vel, rc_out>>

\* main: the velocity call and the choice between its numbers and the report's
MainReconcile ==
    /\ rc_pc = "report"
    /\ \E v \in VelocityAnswers :
        /\ vel' = v
        /\ rc_out' = Reconcile(v, report)
    /\ rc_pc' = "done"
    /\ UNCHANGED report

NextRc ==
    \/ DownloadReport
    \/ MainReconcile

(***************************************************************************)
(* ISSUE HELPERS and DATA BUILDERS (tables)                                *)
(* A row keeps the issue key, the effort and the status name; summary and  *)
(* assignee are copied through by the code and are left out.               *)
(***************************************************************************)
\* f.get(name): the field's value, {} when the field is absent or null
FieldGet(f, name) == IF name \in DOMAIN f THEN f[name] ELSE {}

\* _field_sp_from_fields(fields_obj), scanning the field ids fids in order:
\* {} for None
RECURSIVE FieldSpScan(_, _)
FieldSpScan(f, fids) ==
    IF fids = <<>> THEN {}
    ELSE IF Head(fids) \in DOMAIN f /\ f[Head(fids)] # {}
         THEN f[Head(fids)]
         ELSE FieldSpScan(f, Tail(fids))

FieldSpFromFields(f) == FieldSpScan(f, STORY_POINTS_FIELD_IDS)

\* _is_done(fields)
IsDone(f) == "status" \in DOMAIN f /\ StatusCategoryKey(f["status"]) = "done"

\* `sp = _field_sp_from_fields(f); if sp is None: sp = float(sp_map.get(key, 0.0))`
RowSp(it, sp_map) ==
    IF FieldSpFromFields(it.fields) # {}
    THEN CHOOSE n \in FieldSpFromFields(it.fields) : TRUE
    ELSE SpMapGet(sp_map, it.key)

Row(it, sp_map) == [key |-> it.key, sp |-> RowSp(it, sp_map), status |-> it.fields["status"]]

\* list.sort(key=effort, reverse=True): stable, largest effort first
RECURSIVE InsertDesc(_, _)
InsertDesc(r, sorted) ==
    IF sorted = <<>> THEN <<r>>
    ELSE IF Head(sorted).sp >= r.sp
         THEN <<Head(sorted)>> \o InsertDesc(r, Tail(sorted))
         ELSE <<r>> \o sorted

\* the rows left in the order of the listing
SortDescKeepOrder(rows) == rows
RECURSIVE SortDesc(_)
SortDesc(rows) ==
    IF rows = <<>> THEN <<>>
    ELSE InsertDesc(rows[Len(rows)], SortDesc(SubSeq(rows, 1, Len(rows) - 1)))

\* rows[:5]
TOP_N == 5
Take(rows, n) == SubSeq(rows, 1, Min(n, Len(rows)))

\* the page_size and max_pages the builders pass (100..200 and 50..300 in
\* the source) are scaled to the model's sizes: a builder can list more
\* than TOP_N issues
BuilderPageSize == MaxPageSize
BuilderMaxPages == MaxPages + 1

\* top5_completed_stories: the rows from what the walker returned
Top5Rows(res, sp_map) ==
    LET kept == SelectSeq(res.issues, LAMBDA it :
                    /\ ~(~res.used /\ ~IsDone(it.fields))
                    /\ Lower(it.fields["issuetype"]) \in {"story", "task"})
    IN Take(SortDesc([j \in 1..Len(kept) |-> Row(kept[j], sp_map)]), TOP_N)

\* completed_tech_debts_with_sp: the rows from what the walker returned
TechDebtRows(res, sp_map) ==
    LET kept == SelectSeq(res.issues, LAMBDA it :
                    /\ ~(~res.used /\ ~IsDone(it.fields))
                    /\ Lower(it.fields["status"]) \notin AUDIT_EXCLUDED_STATUS_NAMES
                    /\ FieldGet(it.fields, EPIC_LINK_FIELD_ID) = {TD_EPIC_KEY})
    IN SortDesc([j \in 1..Len(kept) |-> Row(kept[j], sp_map)])

\* stories_tasks_without_epic: the rows from what the walker returned
\* (the walker's used_server_filter is dropped: `issues, _ = ...`)
NoEpicRows(res) ==
    LET kept == SelectSeq(res.issues, LAMBDA it :
                    /\ Lower(it.fields["issuetype"]) \in AUDIT_ISSUE_TYPES
                    /\ FieldGet(it.fields, EPIC_LINK_FIELD_ID) = {})
    IN [j \in 1..Len(kept) |-> [key |-> kept[j].key, status |-> kept[j].fields["status"]]]

\* sp_vals of stories_tasks_without_sp: the values of all present effort fields
SpVals(f) ==
    SelectSeq([j \in 1..Len(STORY_POINTS_FIELD_IDS) |-> FieldGet(f, STORY_POINTS_FIELD_IDS[j])],
              LAMBDA v : v # {})

\* stories_tasks_without_sp: the rows from what the walker returned
NoSpRows(res) ==
    LET kept == SelectSeq(res.issues, LAMBDA it :
                    /\ Lower(it.fields["issuetype"]) \in AUDIT_ISSUE_TYPES
                    /\ \/ Len(SpVals(it.fields)) = 0
                       \/ SumSeq([j \in 1..Len(SpVals(it.fields)) |->
                                     CHOOSE n \in SpVals(it.fields)[j] : TRUE]) = 0)
    IN [j \in 1..Len(kept) |-> [key |-> kept[j].key, status |-> kept[j].fields["status"]]]

\* `keys = {it.get("key") for it in not_completed if it.get("key")}`
CarryKeys(rep) == {it.key : it \in Range(NotCompletedIssues(rep))}

\* carry_over_items_with_sp: the rows from what the walker returned
CarryRows(res, sp_map, keys) ==
    LET kept == SelectSeq(res.issues, LAMBDA it : it.key \in keys)
    IN SortDesc([j \in 1..Len(kept) |-> Row(kept[j], sp_map)])

\* the builders: the filter expression and the fields each one requests
BuilderJql(b) ==
    CASE b \in {"top5", "techdebt"} -> JQL_DONE
      [] b \in {"noepic", "nosp"} -> JQL_NOT_EXCLUDED
      [] OTHER -> NoJql

BuilderFields(b) ==
    CASE b = "top5" -> {"summary", STORY_POINTS_FIELD_ID, "issuetype", "status"}
      [] b = "techdebt" -> {"summary", STORY_POINTS_FIELD_ID, "issuetype", "status",
                            EPIC_LINK_FIELD_ID}
      [] b = "noepic" -> {"summary", "issuetype", "status", EPIC_LINK_FIELD_ID, "assignee"}
      [] b = "nosp" -> {"summary", "issuetype", "status", "assignee"} \cup Range(STORY_POINTS_FIELD_IDS)
      [] b = "carry" -> {"summary", "issuetype", "status"} \cup Range(STORY_POINTS_FIELD_IDS)
      [] OTHER -> {}

BuilderRows(b, res, sp_map) ==
    CASE b = "top5" -> Top5Rows(res, sp_map)
      [] b = "techdebt" -> TechDebtRows(res, sp_map)
      [] b = "noepic" -> NoEpicRows(res)
      [] b = "nosp" -> NoSpRows(res)
      [] b = "carry" -> CarryRows(res, sp_map, CarryKeys(report))
      [] OTHER -> <<>>

NoTable == [walk |-> NoWalk, failed |-> FALSE, rows |-> <<>>]

\* one run of a builder: its walk, then its rows; the exception of a failed
\* second walk leaves the builder (failed = TRUE); carry_over_items_with_sp
\* returns [] without a walk when the report lists no key (`if not keys`)
RunBuilder(b) ==
    IF b = "carry" /\ CarryKeys(report) = {} THEN NoTable
    ELSE CHOOSE out \in
        {[walk |-> res, failed |-> res.raised,
          rows |-> IF res.raised THEN <<>>
                   ELSE BuilderRows(b, res, BuildSpMapFromReport(report))] :
            res \in {AgileSprintIssuesPaginated(BuilderJql(b), BuilderFields(b),
                                                BuilderMaxPages, BuilderPageSize)}} : TRUE

InitT ==
    /\ t_which = "none"
    /\ t_res = NoTable

Top5CompletedStories ==
    /\ t_which = "none"
    /\ t_which' = "top5"
    /\ t_res' = RunBuilder("top5")

CompletedTechDebtsWithSp ==
    /\ t_which = "none"
    /\ t_which' = "techdebt"
    /\ t_res' = RunBuilder("techdebt")

StoriesTasksWithoutEpic ==
    /\ t_which = "none"
    /\ t_which' = "noepic"
    /\ t_res' = RunBuilder("noepic")

StoriesTasksWithoutSp ==
    /\ t_which = "none"
    /\ t_which' = "nosp"
    /\ t_res' = RunBuilder("nosp")

CarryOverItemsWithSp ==
    /\ t_which = "none"
    /\ t_which' = "carry"
    /\ t_res' = RunBuilder("carry")

NextT ==
    \/ Top5CompletedStories
    \/ CompletedTechDebtsWithSp
    \/ StoriesTasksWithoutEpic
    \/ StoriesTasksWithoutSp
    \/ CarryOverItemsWithSp

(***************************************************************************)
(* JIRA CHARTS: render_burndown_png_bytes, the remaining series            *)
(***************************************************************************)
\* last day of the burndown axis (the axis starts on day 1)
NumDays == 10

\* parse_jira_date(s): {} for None; a timestamp is [day, ok], ok = FALSE when
\* no format parses it; .date() of the result is the day
ParseJiraDate(s) == IF s = {} THEN {} ELSE {ts.day : ts \in {t \in s : t.ok}}

\* `while d <= end_dt.date(): days.append(d)`
Days(start, end) == [j \in 1..(end - start + 1) |-> start + j - 1]

\* `if day < days[0] or day > days[-1]: continue`
OutsideAxis(day, days) == day < days[1] \/ day > days[Len(days)]

\* `sp = _field_sp_from_fields(f); if sp is None: sp = 0.0`
BurndownSp(f) ==
    IF FieldSpFromFields(f) = {} THEN 0 ELSE CHOOSE n \in FieldSpFromFields(f) : TRUE

\* the loop over the issues that fills done_by_day
RECURSIVE DoneByDay(_, _, _)
DoneByDay(issues, days, done) ==
    IF issues = <<>> THEN done
    ELSE LET f == Head(issues).fields
             rdt == ParseJiraDate(FieldGet(f, "resolutiondate"))
         IN IF rdt = {} THEN DoneByDay(Tail(issues), days, done)
            ELSE LET day == CHOOSE d \in rdt : TRUE
                 IN IF OutsideAxis(day, days)
                    THEN DoneByDay(Tail(issues), days, done)
                    ELSE DoneByDay(Tail(issues), days,
                                   [done EXCEPT ![day] = @ + BurndownSp(f)])

\* `remaining.append(max(committed_sp - cum, 0.0))`
ClampNone(x) == x
Clamp(x) == Max(x, 0)

\* the loop over the days: cum += done_by_day[day]; remaining.append(...)
RECURSIVE RemainingFrom(_, _, _, _, _)
RemainingFrom(days, j, cum, done, committed_sp) ==
    IF j > Len(days) THEN <<>>
    ELSE <<Clamp(committed_sp - (cum + done[days[j]]))>>
         \o RemainingFrom(days, j + 1, cum + done[days[j]], done, committed_sp)

\* the remaining series of render_burndown_png_bytes from the walked issues
Remaining(issues, days, committed_sp) ==
    RemainingFrom(days, 1, 0,
                  DoneByDay(issues, days, [d \in Range(days) |-> 0]), committed_sp)

BurndownFields ==
    {"resolutiondate", "issuetype", "status", "summary"} \cup Range(STORY_POINTS_FIELD_IDS)

\* `a or b` on two optional values
OrElse(a, b) == IF a # {} THEN a ELSE b

\* `start_dt + datetime.timedelta(days=14)`
SPRINT_FALLBACK_DAYS == 14

\* `start_dt = parse_jira_date(sprint.get("startDate")) or datetime.now(utc)`
StartDay(sprint, now) ==
    CHOOSE d \in OrElse(ParseJiraDate(sprint.startDate), {now}) : TRUE

EndDayPlannedFirst(sprint, now) ==
    CHOOSE d \in OrElse(ParseJiraDate(OrElse(sprint.endDate, sprint.completeDate)),
                        {StartDay(sprint, now) + SPRINT_FALLBACK_DAYS}) : TRUE

\* `end_dt = parse_jira_date(sprint.get("completeDate") or sprint.get("endDate"))
\*           or (start_dt + datetime.timedelta(days=14))`
EndDay(sprint, now) ==
    CHOOSE d \in OrElse(ParseJiraDate(OrElse(sprint.completeDate, sprint.endDate)),
                        {StartDay(sprint, now) + SPRINT_FALLBACK_DAYS}) : TRUE

\* `total_days = max(1, (days[-1] - days[0]).days)`
TotalDays(days) == Max(1, days[Len(days)] - days[1])

\* `ideal.append(committed_sp * (1.0 - i / total_days))`, i from 0: the value
\* is the fraction num / den
Ideal(days, committed_sp) ==
    [j \in 1..Len(days) |->
        [num |-> committed_sp * (TotalDays(days) - (j - 1)), den |-> TotalDays(days)]]

NoBurndown ==
    [state |-> "none", issues |-> <<>>, days |-> <<>>, remaining |-> <<>>,
     ideal |-> <<>>]

StandardSprint ==
    [startDate |-> {[day |-> 1, ok |-> TRUE]}, completeDate |-> {},
     endDate |-> {[day |-> NumDays, ok |-> TRUE]}]

InitBd ==
    /\ bd_in = [committed_sp |-> 0, sprint |-> StandardSprint, now |-> 1]
    /\ bd_out = NoBurndown

\* render_burndown_png_bytes(report_json, sprint_id, committed_sp, board_id) up
\* to the two series; the exception of a failed walk leaves it, and so does
\* the IndexError of days[0] / days[-1] on an empty axis
RenderBurndown ==
    /\ bd_out.state = "none"
    /\ \E days \in {Days(StartDay(bd_in.sprint, bd_in.now),
                         EndDay(bd_in.sprint, bd_in.now))},
          res \in {AgileSprintIssuesPaginated(NoJql, BurndownFields,
                                              BuilderMaxPages, BuilderPageSize)} :
          bd_out' = IF res.raised \/ days = <<>>
                    THEN [state |-> "failed", issues |-> <<>>, days |-> days,
                          remaining |-> <<>>, ideal |-> <<>>]
                    ELSE [state |-> "done", issues |-> res.issues, days |-> days,
                          remaining |-> Remaining(res.issues, days, bd_in.committed_sp),
                          ideal |-> Ideal(days, bd_in.committed_sp)]
    /\ UNCHANGED bd_in

NextBd == RenderBurndown

(***************************************************************************)
(* LINEARB: _daterange_inclusive, _lb_timeseries_complete and the four     *)
(* day series of main                                                      *)
(***************************************************************************)
\* number of raw rows in a measurements answer
MaxRows == 2

\* `float(v_min) / 60.0`: hours are fractions num / den with den = 60
MIN_PER_HOUR == 60
Hours(v_min) == [num |-> v_min, den |-> MIN_PER_HOUR]
ZeroHours == [num |-> 0, den |-> MIN_PER_HOUR]

\* `a + b` on two hour values
AddHours(a, b) == [num |-> a.num + b.num, den |-> MIN_PER_HOUR]

DaterangeEndExclusive(start_date, end_date) ==
    [j \in 1..(end_date - start_date) |-> start_date + j - 1]

\* _daterange_inclusive(start_date, end_date)
DaterangeInclusive(start_date, end_date) ==
    [j \in 1..(end_date - start_date + 1) |-> start_date + j - 1]

\* `if not d: continue` and `datetime.date.fromisoformat(d)`, whose
\* exception skips the row: {} when there is no date to use
DateFromIso(d) == {ts.day : ts \in {t \in d : t.ok}}

\* `by_date_hours[dt] = (float(v_min) / 60.0) if v_min is not None else 0.0`
RowHours(row, key) ==
    IF row[key] = {} THEN ZeroHours ELSE Hours(CHOOSE v \in row[key] : TRUE)

\* the loop over points: rows without a date or with one that does not parse
\* are skipped, a later row of the same date replaces the earlier one
RECURSIVE ByDateHours(_, _, _)
ByDateHours(points, key, acc) ==
    IF points = <<>> THEN acc
    ELSE LET row == Head(points)
             dt == DateFromIso(row.date)
         IN IF dt = {} THEN ByDateHours(Tail(points), key, acc)
            ELSE ByDateHours(Tail(points), key,
                             [d \in DOMAIN acc \cup dt |->
                                 IF d \in dt THEN RowHours(row, key) ELSE acc[d]])

\* `ys = [by_date_hours.get(day, 0.0) for day in all_days]`
ZeroFill(by_date_hours, all_days) ==
    [j \in 1..Len(all_days) |->
        IF all_days[j] \in DOMAIN by_date_hours THEN by_date_hours[all_days[j]]
        ELSE ZeroHours]

\* _lb_timeseries_complete(points, start_date, end_date, key)
LbTimeseriesComplete(points, start_date, end_date, key) ==
    [xs |-> DaterangeInclusive(start_date, end_date),
     ys |-> ZeroFill(ByDateHours(points, key, <<>>),
                     DaterangeInclusive(start_date, end_date))]

\* `[a + b + c for a, b, c in zip(hours_coding, hours_pickup, hours_review)]`
ZipSumFirstOnly(a, b, c) == a
ZipSum(a, b, c) ==
    [j \in 1..Min(Len(a), Min(Len(b), Len(c))) |-> AddHours(AddHours(a[j], b[j]), c[j])]

\* `s_start = parse_jira_date(sprint_meta.get("startDate")) or datetime.now()`
LbStart(meta, now) == CHOOSE d \in OrElse(ParseJiraDate(meta.startDate), {now}) : TRUE

\* `s_end = parse_jira_date(sprint_meta.get("endDate")) or s_start`
LbEnd(meta, now) ==
    CHOOSE d \in OrElse(ParseJiraDate(meta.endDate), {LbStart(meta, now)}) : TRUE

NoSeries == [xs |-> <<>>, ys |-> <<>>]
NoLb == [state |-> "none", coding |-> NoSeries, pickup |-> NoSeries,
         review |-> NoSeries, cycle |-> NoSeries]

InitLb ==
    /\ lb_in = [token |-> FALSE, answer |-> "raise", rows |-> <<>>,
                meta |-> [startDate |-> {}, endDate |-> {}], now |-> 1]
    /\ lb_out = NoLb

\* main's LinearB step on the input in: the token is missing (a warning,
\* no series), the measurements call raised after its retries (the except
\* clause prints a warning, no series), or the four series
LbStep(in) ==
    IF ~in.token THEN [NoLb EXCEPT !.state = "skipped"]
    ELSE IF in.answer = "raise" THEN [NoLb EXCEPT !.state = "unavailable"]
    ELSE CHOOSE out \in
        {[state |-> "done", coding |-> c, pickup |-> p, review |-> r,
          cycle |-> [xs |-> c.xs, ys |-> ZipSum(c.ys, p.ys, r.ys)]] :
            c \in {LbTimeseriesComplete(in.rows, LbStart(in.meta, in.now),
                                        LbEnd(in.meta, in.now), "coding_min")},
            p \in {LbTimeseriesComplete(in.rows, LbStart(in.meta, in.now),
                                        LbEnd(in.meta, in.now), "pickup_min")},
            r \in {LbTimeseriesComplete(in.rows, LbStart(in.meta, in.now),
                                        LbEnd(in.meta, in.now), "review_min")}} : TRUE

\* main, `if LINEARB_TOKEN:` ... the measurements call and the four series
LbSeries ==
    /\ lb_out.state = "none"
    /\ lb_in.token
    /\ lb_in.answer = "rows"
    /\ lb_out' = LbStep(lb_in)
    /\ UNCHANGED lb_in

\* main, the measurements call raises after its retries: the except clause
\* prints a warning and no series is built
LbUnavailable ==
    /\ lb_out.state = "none"
    /\ lb_in.token
    /\ lb_in.answer = "raise"
    /\ lb_out' = LbStep(lb_in)
    /\ UNCHANGED lb_in

\* main, `else: print("[warn] LinearB token missing; skipping LinearB charts.")`
LbSkipped ==
    /\ lb_out.state = "none"
    /\ ~lb_in.token
    /\ lb_out' = LbStep(lb_in)
    /\ UNCHANGED lb_in

NextLb == LbSeries \/ LbUnavailable \/ LbSkipped

(***************************************************************************)
(* AGEING: working_days_since                                              *)
(***************************************************************************)
\* last calendar day of the ageing inputs; day 1 is a Monday
MaxDay == 15

\* d.weekday(): 0 = Monday ... 6 = Sunday
Weekday(d) == (d - 1) % 7

\* `if d.weekday() < 5`
IsWorkingDay(d) == Weekday(d) < 5

\* `d = c + datetime.timedelta(days=1)`: the first day the loop looks at
FirstCountedIsCreation(c) == c
FirstCounted(c) == c + 1

\* `while d <= today_date: if d.weekday() < 5: cnt += 1; d += one`
RECURSIVE CountWorkingDays(_, _, _)
CountWorkingDays(d, today_date, cnt) ==
    IF d > today_date THEN cnt
    ELSE CountWorkingDays(d + 1, today_date, IF IsWorkingDay(d) THEN cnt + 1 ELSE cnt)

\* working_days_since(created_dt, today_date): today_date None is replaced by
\* the clock's date
WorkingDaysSince(created_dt, today_date, clock) ==
    IF created_dt = {} THEN 0
    ELSE LET c == CHOOSE d \in created_dt : TRUE
             t == CHOOSE d \in OrElse(today_date, {clock}) : TRUE
         IN IF t <= c THEN 0 ELSE CountWorkingDays(FirstCounted(c), t, 0)

InitWd ==
    /\ wd_in = [created_dt |-> {}, today_date |-> {}, clock |-> 1]
    /\ wd_out = {}

\* one call of working_days_since
WorkingDaysSinceCall ==
    /\ wd_out = {}
    /\ wd_out' = {WorkingDaysSince(wd_in.created_dt, wd_in.today_date, wd_in.clock)}
    /\ UNCHANGED wd_in

NextWd == WorkingDaysSinceCall

(***************************************************************************)
(* PREVIOUS RETRO ACTION ITEMS: fetch_epic_action_items                    *)
(***************************************************************************)
\* number of direct children of the epic and of sub-tasks at the upstream
MaxChildren == 2
MaxSubs == 2

ChildKeys == 1..MaxChildren
SubKeys == (MaxChildren + 1)..(MaxChildren + MaxSubs)

\* `"maxResults": 100` and `if len(chunk) < 100`, scaled to the model's sizes
EpicPageSize == 1

\* STORY_TYPES (lower-cased) with "story" and "task"
ALLOWED_PARENT_TYPES ==
    {"story", "task", "spike", "enabler story", "technical story", "user story"}

\* one listing loop (`while True`) from request reqNo on: a failed request
\* ends it with the pages collected so far.  Gives [issues, failed, reqs]
\* (reqs: the number of the last request sent).
RECURSIVE EpicListing(_, _, _, _, _)
EpicListing(children, fails, start_at, reqNo, issues) ==
    IF reqNo \in fails THEN [issues |-> issues, failed |-> TRUE, reqs |-> reqNo]
    ELSE LET chunk == SubSeq(children, start_at + 1,
                             Min(start_at + EpicPageSize, Len(children)))
         IN IF Len(chunk) < EpicPageSize
            THEN [issues |-> issues \o chunk, failed |-> FALSE, reqs |-> reqNo]
            ELSE EpicListing(children, fails, start_at + EpicPageSize, reqNo + 1,
                             issues \o chunk)

\* a search-API listing after every agile listing
UseFallbackAlways(issues) == TRUE
\* `if not issues:` the search-API listing; its exception is caught
UseFallback(issues) == issues = <<>>

\* step 1): the agile listing of the epic's issues
AgileEpicListing(in) == EpicListing(in.children, in.agile_fails, 0, 1, <<>>)

\* steps 1) and 2): the issues the function works on
EpicIssues(in) ==
    LET agile == AgileEpicListing(in)
    IN IF UseFallback(agile.issues)
       THEN EpicListing(in.children, in.search_fails, 0, 1, agile.issues).issues
       ELSE agile.issues

\* get_issue_fields(sk, [...]): {} (no field) when the request failed
SubFields(in, sk) == IF sk \in in.sub_fails THEN <<>> ELSE in.sub[sk]

\* _pull_common(it_fields): status_cat is {} for None
PullCommon(f, clock) ==
    [status |-> IF "status" \in DOMAIN f THEN f.status ELSE "-",
     assignee |-> IF "assignee" \in DOMAIN f THEN f.assignee ELSE "-",
     status_cat |-> IF "status" \in DOMAIN f THEN {StatusCategoryKey(f.status)} ELSE {},
     age |-> WorkingDaysSince(
                 ParseJiraDate(IF "created" \in DOMAIN f THEN f.created ELSE {}),
                 {}, clock)]

\* `if itype not in allowed_parent_types: continue`
IsAllowedParent(it) == Lower(it.fields.issuetype) \in ALLOWED_PARENT_TYPES

\* `if status_cat == "done": done_rows.append(...) else: open_tmp.append(...)`
GoesToDoneNever(c) == FALSE
GoesToDone(c) == c.status_cat = {"done"}

\* the row of an item, with the list it goes to
EpicRow(key, f, clock) ==
    LET c == PullCommon(f, clock)
    IN [key |-> key, status |-> c.status, assignee |-> c.assignee, age |-> c.age,
        done |-> GoesToDone(c)]

\* the loop over the issues: the rows of the allowed parents, in order
ParentRows(issues, clock) ==
    LET kept == SelectSeq(issues, IsAllowedParent)
    IN [j \in 1..Len(kept) |-> EpicRow(kept[j].key, kept[j].fields, clock)]

\* subtask_keys: the sub-tasks named by the allowed parents, in order
RECURSIVE SubtaskKeys(_)
SubtaskKeys(issues) ==
    IF issues = <<>> THEN <<>>
    ELSE (IF IsAllowedParent(Head(issues)) THEN Head(issues).fields.subtasks ELSE <<>>)
         \o SubtaskKeys(Tail(issues))

\* the loop over subtask_keys: one fetch and one row per entry
SubtaskRows(in, keys) ==
    [j \in 1..Len(keys) |-> EpicRow(keys[j], SubFields(in, keys[j]), in.clock)]

\* open_tmp.sort(key=age, reverse=True): stable, oldest first
RECURSIVE InsertByAgeDesc(_, _)
InsertByAgeDesc(r, sorted) ==
    IF sorted = <<>> THEN <<r>>
    ELSE IF Head(sorted).age >= r.age
         THEN <<Head(sorted)>> \o InsertByAgeDesc(r, Tail(sorted))
         ELSE <<r>> \o sorted

RECURSIVE SortByAgeDesc(_)
SortByAgeDesc(rows) ==
    IF rows = <<>> THEN <<>>
    ELSE InsertByAgeDesc(rows[Len(rows)], SortByAgeDesc(SubSeq(rows, 1, Len(rows) - 1)))

\* the order of Python's str comparison on the texts of the model
StrRank(s) ==
    CASE s = "-" -> 0
      [] s = "Ann" -> 1
      [] s = "Bob" -> 2
      [] s = "Cancelled" -> 3
      [] s = "Done" -> 4
      [] s = "In Progress" -> 5
      [] s = "To Do" -> 6
      [] OTHER -> 7

\* the sort key (status, assignee, key) of a done row
DoneKeyLeq(a, b) ==
    \/ StrRank(a.status) < StrRank(b.status)
    \/ /\ a.status = b.status
       /\ \/ StrRank(a.assignee) < StrRank(b.assignee)
          \/ a.assignee = b.assignee /\ a.key <= b.key

\* done_rows.sort(key=(status, assignee, key)): stable, ascending
RECURSIVE InsertByDoneKey(_, _)
InsertByDoneKey(r, sorted) ==
    IF sorted = <<>> THEN <<r>>
    ELSE IF DoneKeyLeq(Head(sorted), r)
         THEN <<Head(sorted)>> \o InsertByDoneKey(r, Tail(sorted))
         ELSE <<r>> \o sorted

RECURSIVE SortByDoneKey(_)
SortByDoneKey(rows) ==
    IF rows = <<>> THEN <<>>
    ELSE InsertByDoneKey(rows[Len(rows)], SortByDoneKey(SubSeq(rows, 1, Len(rows) - 1)))

\* fetch_epic_action_items(epic_key): (open_rows, done_rows); `fetched` is
\* the list of keys get_issue_fields was called with, one call per entry of
\* subtask_keys
FetchEpicActionItems(in) ==
    CHOOSE out \in
        {[issues |-> issues,
          agile |-> AgileEpicListing(in),
          searched |-> UseFallback(AgileEpicListing(in).issues),
          fetched |-> SubtaskKeys(issues),
          open_rows |-> SortByAgeDesc(SelectSeq(rows, LAMBDA r : ~r.done)),
          done_rows |-> SortByDoneKey(SelectSeq(rows, LAMBDA r : r.done))] :
            issues \in {EpicIssues(in)},
            rows \in {ParentRows(EpicIssues(in), in.clock)
                      \o SubtaskRows(in, SubtaskKeys(EpicIssues(in)))}} : TRUE

NoEpicInput ==
    [children |-> <<>>, sub |-> <<>>, agile_fails |-> {}, search_fails |-> {},
     sub_fails |-> {}, clock |-> 1]
NoEpicOutput ==
    [state |-> "none", issues |-> <<>>, open_rows |-> <<>>, done_rows |-> <<>>,
     agile |-> [issues |-> <<>>, failed |-> FALSE, reqs |-> 0], searched |-> FALSE,
     fetched |-> <<>>]

InitEp ==
    /\ ep_in = NoEpicInput
    /\ ep_out = NoEpicOutput

\* one call of fetch_epic_action_items
FetchEpicActionItemsCall ==
    /\ ep_out.state = "none"
    /\ \E r \in {FetchEpicActionItems(ep_in)} :
          ep_out' = [state |-> "returned", issues |-> r.issues,
                     open_rows |-> r.open_rows, done_rows |-> r.done_rows,
                     agile |-> r.agile, searched |-> r.searched,
                     fetched |-> r.fetched]
    /\ UNCHANGED ep_in

NextEp == FetchEpicActionItemsCall

(***************************************************************************)
(* SCHEMA DISCOVERY: discover_field_ids                                    *)
(***************************************************************************)
\* number of fields in the catalog
MaxFields == 3

\* str.strip().lower() on the field names that occur
NameStripLower(n) ==
    CASE n = "Epic Link" -> "epic link"
      [] n = " EPIC LINK " -> "epic link"
      [] n = "Story Points" -> "story points"
      [] n = "Story Point" -> "story point"
      [] n = "Story point estimate" -> "story point estimate"
      [] n = "Summary" -> "summary"
      [] OTHER -> n

\* `(f.get("name") or "").strip().lower() == "epic link"`
IsEpicLinkName(n) == NameStripLower(n) = "epic link"

\* `"story point" in f.get("name", "").lower()`
ContainsStoryPoint(n) ==
    NameStripLower(n) \in {"story points", "story point", "story point estimate"}

\* `f.get("id", "").startswith("customfield_")`
IsCustomFieldId(id) == id \in {"cf_epic", "cf_sp1", "cf_sp2", "cf_sp3", "cf_text"}

\* the condition of the list comprehension that builds cands
IsCandidate(f) ==
    ContainsStoryPoint(f.name) /\ f.type = "number" /\ IsCustomFieldId(f.id)

\* next((f["id"] for f in fields if <name is epic link>), None)
RECURSIVE EpicLinkOf(_)
EpicLinkOf(fields) ==
    IF fields = <<>> THEN {}
    ELSE IF IsEpicLinkName(Head(fields).name) THEN {Head(fields).id}
         ELSE EpicLinkOf(Tail(fields))

\* the inner loop `for f in cands: if <name is nm>: pref = f; break`
RECURSIVE PrefFor(_, _)
PrefFor(cands, nm) ==
    IF cands = <<>> THEN {}
    ELSE IF NameStripLower(Head(cands).name) = nm THEN {Head(cands).id}
         ELSE PrefFor(Tail(cands), nm)

\* the first candidate, whatever its name
PrimaryOfFirstCandidate(cands) == IF cands = <<>> THEN {} ELSE {cands[1].id}
\* `(pref or (cands[0] if cands else {})).get("id")`
PrimaryOf(cands) ==
    OrElse(OrElse(PrefFor(cands, "story points"), PrefFor(cands, "story point")),
           IF cands = <<>> THEN {} ELSE {cands[1].id})

\* `for f in cands: if fid not in seen: append; seen.add`
RECURSIVE AppendUnseen(_, _)
AppendUnseen(ids, cands) ==
    IF cands = <<>> THEN ids
    ELSE AppendUnseen(IF Head(cands).id \in Range(ids) THEN ids
                      ELSE Append(ids, Head(cands).id),
                      Tail(cands))

\* the three globals discover_field_ids assigns from the catalog
DiscoveredIds(fields) ==
    LET cands == SelectSeq(fields, IsCandidate)
    IN [epic |-> EpicLinkOf(fields),
        sp_id |-> PrimaryOf(cands),
        sp_ids |-> AppendUnseen([j \in 1..Cardinality(PrimaryOf(cands)) |->
                                    CHOOSE id \in PrimaryOf(cands) : TRUE], cands)]

\* `if not EPIC_LINK_FIELD_ID: ... sys.exit(2)` and
\* `if not STORY_POINTS_FIELD_IDS: ... sys.exit(2)`
DiscoveryExitsEpicOnly(ids) == ids.epic = {}
DiscoveryExits(ids) == ids.epic = {} \/ ids.sp_ids = <<>>

NoIds == [epic |-> {}, sp_id |-> {}, sp_ids |-> <<>>]
NoCatalog == [ok |-> FALSE, fields |-> <<>>]

\* the fields a catalog may hold
CatalogFields ==
    {[id |-> "cf_epic", name |-> "Epic Link", type |-> "any"],
     [id |-> "cf_sp1", name |-> "Story Points", type |-> "number"],
     [id |-> "cf_sp2", name |-> "Story point estimate", type |-> "number"],
     [id |-> "cf_sp3", name |-> "story point", type |-> "number"],
     [id |-> "cf_text", name |-> "Story Points", type |-> "string"],
     [id |-> "storypoints", name |-> "Story Points", type |-> "number"],
     [id |-> "summary", name |-> "Summary", type |-> "string"]}

\* the answers of the catalog request: it raised, or a list of distinct fields
CatalogAnswers ==
    {NoCatalog}
    \cup {[ok |-> TRUE, fields |-> fs] :
             fs \in UNION {{f \in [1..n -> CatalogFields] :
                               \A i, j \in 1..n : i # j => f[i] # f[j]} :
                           n \in 0..MaxFields}}

\* an upstream that serves the sprint's issues in key order and may fail
\* the first, or the first two, page requests
StableServers(keys) ==
    [issues : {[j \in 1..Cardinality(keys) |-> j]}, fails : {{}, {1}, {1, 2}},
     skew : {0}, shiftAt : {0}]

\* a sprint report whose estimate statistics differ from the issue fields
TableReport ==
    [completedIssues |-> [k \in ItemKeys |-> [key |-> k, est |-> [value |-> {5}, text |-> {}]]],
     issuesNotCompletedInCurrentSprint |-> <<>>,
     issueKeysAddedDuringSprint |-> {}]

\* the same report with the first item not completed and without estimate
TableReportCarry ==
    [completedIssues |->
         [j \in 1..(MaxItems - 1) |-> [key |-> j + 1, est |-> [value |-> {5}, text |-> {}]]],
     issuesNotCompletedInCurrentSprint |-> <<[key |-> 1, est |-> [value |-> {}, text |-> {}]]>>,
     issueKeysAddedDuringSprint |-> {}]

(***************************************************************************)
(* MAIN: the order of the steps of main and what ends the run              *)
(* mn_pc = "exit" is sys.exit(2), "traceback" an exception that left main, *)
(* "done" the last print.                                                  *)
(***************************************************************************)
\* the derived-table builders main calls, and its team list
MainTables == {"top5", "techdebt", "team", "noepic", "nosp", "carry", "retro", "charts"}

NoResult == [state |-> "none", n |-> 0]

\* the steps of main that use what discover_field_ids sets or run after it
DependentSteps ==
    {"board", "sprints", "pick", "report", "reconcile", "top5", "techdebt", "team",
     "noepic", "nosp", "carry", "retro", "page", "charts", "labels"}

InitMn ==
    /\ catalog = NoCatalog
    /\ mn_pc = "jira_check"
    /\ mn_log = <<>>
    /\ mn_ids = NoIds
    /\ mn_tab = [b \in MainTables |-> NoResult]

InitPg ==
    /\ page_up = 0
    /\ mn_version = 0
    /\ mn_sent = <<>>

\* main: the Jira connectivity check, `except Exception: ...; sys.exit(2)`
MainJiraCheck ==
    /\ mn_pc = "jira_check"
    /\ mn_log' = Append(mn_log, "jira_check")
    /\ \E ok \in BOOLEAN : mn_pc' = IF ok THEN "conf_check" ELSE "exit"
    /\ UNCHANGED <<catalog, mn_ids, mn_tab, upVars, rcVars, epVars, lbVars, pgVars>>

\* main: the Confluence connectivity check
MainConfCheck ==
    /\ mn_pc = "conf_check"
    /\ mn_log' = Append(mn_log, "conf_check")
    /\ \E ok \in BOOLEAN : mn_pc' = IF ok THEN "discover" ELSE "exit"
    /\ UNCHANGED <<catalog, mn_ids, mn_tab, upVars, rcVars, epVars, lbVars, pgVars>>

\* main: `discover_field_ids()`; the catalog request is outside any try,
\* the globals are assigned before the two exits; the answer read is gone
\* when the function ends
MainDiscover ==
    /\ mn_pc = "discover"
    /\ mn_log' = Append(mn_log, "discover")
    /\ IF ~catalog.ok
       THEN mn_pc' = "traceback" /\ UNCHANGED mn_ids
       ELSE \E ids \in {DiscoveredIds(catalog.fields)} :
               /\ mn_ids' = ids
               /\ mn_pc' = IF DiscoveryExits(ids) THEN "exit" ELSE "board"
    /\ catalog' = NoCatalog
    /\ UNCHANGED <<mn_tab, upVars, rcVars, epVars, lbVars, pgVars>>

\* main: `board = find_board_by_name(BOARD_NAME)`: one board, no board or
\* several boards (sys.exit(2)), or the board listing raised
MainBoard ==
    /\ mn_pc = "board"
    /\ mn_log' = Append(mn_log, "board")
    /\ \E r \in {"found", "exit", "raised"} :
          mn_pc' = CASE r = "found" -> "sprints"
                     [] r = "exit" -> "exit"
                     [] OTHER -> "traceback"
    /\ UNCHANGED <<catalog, mn_ids, mn_tab, upVars, rcVars, epVars, lbVars, pgVars>>

\* main: list_all_closed_prefix_sorted, then pick_from_list: the listing
\* raised, or nothing to show (sys.exit(2)), or a sprint is picked
MainSprints ==
    /\ mn_pc = "sprints"
    /\ \E r \in {"picked", "nothing", "raised"} :
          /\ mn_log' = IF r = "raised" THEN Append(mn_log, "sprints")
                       ELSE mn_log \o <<"sprints", "pick">>
          /\ mn_pc' = CASE r = "picked" -> "report"
                        [] r = "nothing" -> "exit"
                        [] OTHER -> "traceback"
    /\ UNCHANGED <<catalog, mn_ids, mn_tab, upVars, rcVars, epVars, lbVars, pgVars>>

\* the sprint reports main may download
MainReports == {TableReport, TableReportCarry}

\* main: `report = sprint_report(board["id"], sprint["id"])`, outside any try
MainReport ==
    /\ mn_pc = "report"
    /\ mn_log' = Append(mn_log, "report")
    /\ \/ /\ report' \in MainReports
          /\ rc_pc' = "report"
          /\ mn_pc' = "reconcile"
       \/ /\ mn_pc' = "traceback"
          /\ UNCHANGED <<report, rc_pc>>
    /\ UNCHANGED <<catalog, mn_ids, mn_tab, upVars, vel, rc_out, epVars, lbVars, pgVars>>

\* the velocity answers main may get
MainVelocities ==
    {NoVelocity,
     [ok |-> TRUE, str |-> {}, int |-> {}],
     [ok |-> TRUE, str |-> {[estimated |-> {7}, completed |-> {4}]}, int |-> {}]}

\* main: the velocity call (it catches its own failure) and the counts
MainReconcileStep ==
    /\ mn_pc = "reconcile"
    /\ mn_log' = Append(mn_log, "reconcile")
    /\ \E v \in MainVelocities :
          /\ vel' = v
          /\ rc_out' = Reconcile(v, report)
    /\ rc_pc' = "done"
    /\ mn_pc' = "top5"
    /\ UNCHANGED <<catalog, mn_ids, mn_tab, upVars, report, epVars, lbVars, pgVars>>

\* the step of main after each builder
AfterBuilder(b) ==
    CASE b = "top5" -> "techdebt"
      [] b = "techdebt" -> "team"
      [] b = "team" -> "noepic"
      [] b = "noepic" -> "nosp"
      [] b = "nosp" -> "carry"
      [] OTHER -> "retro"

\* a builder called by main outside any try: its rows, or its exception
\* leaves main; the upstream may behave differently for the next call
MainBuilder(b) ==
    /\ mn_pc = b
    /\ mn_log' = Append(mn_log, b)
    /\ \E out \in {RunBuilder(b)} :
          /\ mn_tab' = [mn_tab EXCEPT ![b] =
                           [state |-> IF out.failed THEN "raised" ELSE "rows",
                            n |-> Len(out.rows)]]
          /\ mn_pc' = IF out.failed THEN "traceback" ELSE AfterBuilder(b)
    /\ srv' \in StableServers(ItemKeys)
    /\ UNCHANGED <<catalog, mn_ids, attr, rcVars, epVars, lbVars, pgVars>>

MainTop5 == MainBuilder("top5")
MainTechDebts == MainBuilder("techdebt")
MainNoEpic == MainBuilder("noepic")
MainNoSp == MainBuilder("nosp")
MainCarry == MainBuilder("carry")

\* main: unique_assignees_from_sprint: one walk without filter, outside any try
MainTeam ==
    /\ mn_pc = "team"
    /\ mn_log' = Append(mn_log, "team")
    /\ \E res \in {AgileSprintIssuesPaginated(NoJql, {"assignee"},
                                              BuilderMaxPages, BuilderPageSize)} :
          /\ mn_tab' = [mn_tab EXCEPT !["team"] =
                           [state |-> IF res.raised THEN "raised" ELSE "rows",
                            n |-> Len(SelectSeq(res.issues,
                                        LAMBDA it : "assignee" \in DOMAIN it.fields))]]
          /\ mn_pc' = IF res.raised THEN "traceback" ELSE AfterBuilder("team")
    /\ srv' \in StableServers(ItemKeys)
    /\ UNCHANGED <<catalog, mn_ids, attr, rcVars, epVars, lbVars, pgVars>>

\* main: `try: ... fetch_epic_action_items(RETRO_EPIC_KEY) except Exception:`
\* the function catches the failures of its own requests
MainRetro ==
    /\ mn_pc = "retro"
    /\ mn_log' = Append(mn_log, "retro")
    /\ \E r \in {FetchEpicActionItems(ep_in)} :
          /\ ep_out' = [state |-> "returned", issues |-> r.issues,
                        open_rows |-> r.open_rows, done_rows |-> r.done_rows,
                        agile |-> r.agile, searched |-> r.searched,
                     fetched |-> r.fetched]
          /\ mn_tab' = [mn_tab EXCEPT !["retro"] =
                           [state |-> "rows", n |-> Len(r.open_rows) + Len(r.done_rows)]]
    /\ mn_pc' = "page"
    /\ UNCHANGED <<catalog, mn_ids, upVars, rcVars, ep_in, lbVars, pgVars>>

\* the page as find_existing_page gives it: the version found ({} for
\* None: no such page, or the lookup failed and its exception was caught)
FindExistingPage(up, lookup_ok) == IF up > 0 /\ lookup_ok THEN {up} ELSE {}

\* update_page sends the version unchanged
UpdateVersionSame(version) == version
\* update_page: `"version": {"number": (version or 0) + 1}`
UpdateVersion(version) == version + 1

\* Confluence accepts an update whose version number is the page's plus one
UpdateAccepted(up, sent) == up > 0 /\ sent = up + 1

\* Confluence creates a page unless the space has one with that title
CreateAccepted(up) == up = 0

\* main: "1) INITIAL PAGE": find_existing_page, then update_page and
\* `version += 1`, or create_page and `version = 1`; outside any try
MainPage ==
    /\ mn_pc = "page"
    /\ mn_log' = Append(mn_log, "page")
    /\ \E lookup_ok, request_ok \in BOOLEAN :
          \E existing \in {FindExistingPage(page_up, lookup_ok)} :
             IF existing # {}
             THEN \E version \in existing :
                     /\ mn_sent' = Append(mn_sent, [kind |-> "initial",
                                                    sent |-> UpdateVersion(version),
                                                    at |-> page_up])
                     /\ IF request_ok /\ UpdateAccepted(page_up, UpdateVersion(version))
                        THEN /\ page_up' = UpdateVersion(version)
                             /\ mn_version' = version + 1
                             /\ mn_pc' = "charts"
                        ELSE /\ mn_pc' = "traceback"
                             /\ mn_version' = version
                             /\ UNCHANGED page_up
             ELSE /\ UNCHANGED mn_sent
                  /\ IF request_ok /\ CreateAccepted(page_up)
                     THEN /\ page_up' = 1
                          /\ mn_version' = 1
                          /\ mn_pc' = "charts"
                     ELSE /\ mn_pc' = "traceback"
                          /\ UNCHANGED <<page_up, mn_version>>
    /\ UNCHANGED <<catalog, mn_ids, mn_tab, upVars, rcVars, epVars, lbVars>>

\* the inputs of main's LinearB step: no token, a failing service, a
\* service without data, a service with one row
MainLbInputs ==
    {[token |-> t, answer |-> a, rows |-> r,
      meta |-> [startDate |-> {[day |-> 1, ok |-> TRUE]},
                endDate |-> {[day |-> 3, ok |-> TRUE]}], now |-> 1] :
        t \in BOOLEAN, a \in {"raise", "rows"},
        r \in {<<>>, <<[date |-> {[day |-> 2, ok |-> TRUE]}, coding_min |-> {90},
                       pickup_min |-> {60}, review_min |-> {}]>>}}

\* main: "2) RENDER & ATTACH CHARTS" to "4) FINAL PAGE UPDATE", one try
\* block whose exceptions are caught with a warning: the Jira charts and
\* their uploads, the LinearB step, the uploads and the check of the
\* attachments, carry_over_items_with_sp again, the final update_page
MainCharts ==
    /\ mn_pc = "charts"
    /\ mn_log' = Append(mn_log, "charts")
    /\ \E jira_ok, upload_ok, request_ok \in BOOLEAN, out \in {RunBuilder("carry")} :
          /\ IF jira_ok
             THEN /\ lb_in' \in {in \in MainLbInputs : in.answer = "rows" \/ in.rows = <<>>}
                  /\ lb_out' = LbStep(lb_in')
             ELSE UNCHANGED lbVars
          /\ IF jira_ok /\ upload_ok /\ ~out.failed
             THEN /\ mn_sent' = Append(mn_sent, [kind |-> "final",
                                                 sent |-> UpdateVersion(mn_version),
                                                 at |-> page_up])
                  /\ page_up' = IF request_ok /\ UpdateAccepted(page_up, UpdateVersion(mn_version))
                                THEN UpdateVersion(mn_version) ELSE page_up
                  /\ mn_tab' = [mn_tab EXCEPT !["charts"] =
                                   [state |-> IF request_ok
                                                 /\ UpdateAccepted(page_up, UpdateVersion(mn_version))
                                              THEN "rows" ELSE "raised",
                                    n |-> Len(out.rows)]]
             ELSE /\ mn_tab' = [mn_tab EXCEPT !["charts"] =
                                   [state |-> "raised", n |-> Len(out.rows)]]
                  /\ UNCHANGED <<mn_sent, page_up>>
    /\ mn_pc' = "labels"
    /\ srv' \in StableServers(ItemKeys)
    /\ UNCHANGED <<catalog, mn_ids, attr, rcVars, epVars, mn_version>>

\* main: post_labels in its own try, then the last print
MainLabels ==
    /\ mn_pc = "labels"
    /\ mn_log' = Append(mn_log, "labels")
    /\ mn_pc' = "done"
    /\ UNCHANGED <<catalog, mn_ids, mn_tab, upVars, rcVars, epVars, lbVars, pgVars>>

NextMn ==
    \/ MainJiraCheck
    \/ MainConfCheck
    \/ MainDiscover
    \/ MainBoard
    \/ MainSprints
    \/ MainReport
    \/ MainReconcileStep
    \/ MainTop5
    \/ MainTechDebts
    \/ MainTeam
    \/ MainNoEpic
    \/ MainNoSp
    \/ MainCarry
    \/ MainRetro
    \/ MainPage
    \/ MainCharts
    \/ MainLabels

(***************************************************************************)
(* The specifications                                                      *)
(***************************************************************************)
NoServer == [issues |-> <<>>, fails |-> {}, skew |-> 0, shiftAt |-> 0]

\* the retrying transport alone
InitRetry ==
    /\ InitRq /\ InitW /\ InitT /\ InitRc /\ InitBd /\ InitLb /\ InitWd /\ InitEp /\ InitMn /\ InitPg
    /\ srv = NoServer
    /\ attr = WalkAttr

NextRetry == NextRq /\ UNCHANGED <<upVars, wVars, tVars, rcVars, bdVars, lbVars, wdVars, epVars, mnVars, pgVars>>

SpecRetry == InitRetry /\ [][NextRetry]_vars

\* the walker against every upstream behaviour
InitWalk ==
    /\ InitRq /\ InitW /\ InitT /\ InitRc /\ InitBd /\ InitLb /\ InitWd /\ InitEp /\ InitMn /\ InitPg
    /\ srv \in Servers
    /\ attr = WalkAttr

NextWalk == NextW /\ UNCHANGED <<rqVars, upVars, tVars, rcVars, bdVars, lbVars, wdVars, epVars, mnVars, pgVars>>

SpecWalk == InitWalk /\ [][NextWalk]_vars

\* the issue fields that occur in the tables: type, status, and the epic
\* link with the two effort fields
TableSpCombos ==
    {[cf_epic |-> {}, cf_sp1 |-> {}, cf_sp2 |-> {}],
     [cf_epic |-> {TD_EPIC_KEY}, cf_sp1 |-> {3}, cf_sp2 |-> {}],
     [cf_epic |-> {TD_EPIC_KEY}, cf_sp1 |-> {0}, cf_sp2 |-> {2}],
     [cf_epic |-> {}, cf_sp1 |-> {}, cf_sp2 |-> {2}]}

TableIssues ==
    {[issuetype |-> ty, status |-> st, cf_epic |-> c.cf_epic, cf_sp1 |-> c.cf_sp1,
      cf_sp2 |-> c.cf_sp2, resolutiondate |-> {}] :
        ty \in {"Story", "Bug"}, st \in {"Done", "In Progress", "Cancelled"},
        c \in TableSpCombos}

\* the table builders
InitTables ==
    /\ InitRq /\ InitW /\ InitT /\ InitBd /\ InitLb /\ InitWd /\ InitEp /\ InitMn /\ InitPg
    /\ srv \in StableServers(ItemKeys)
    /\ attr \in [ItemKeys -> TableIssues]
    /\ report \in {TableReport, TableReportCarry}
    /\ vel = NoVelocity
    /\ rc_pc = "start"
    /\ rc_out = <<0, 0, 0, 0>>

NextTables == NextT /\ UNCHANGED <<rqVars, upVars, wVars, rcVars, bdVars, lbVars, wdVars, epVars, mnVars, pgVars>>

SpecTables == InitTables /\ [][NextTables]_vars

\* the reconciliation of committed / completed in main
InitReconcile ==
    /\ InitRq /\ InitW /\ InitT /\ InitRc /\ InitBd /\ InitLb /\ InitWd /\ InitEp /\ InitMn /\ InitPg
    /\ srv = NoServer
    /\ attr = WalkAttr

NextReconcile == NextRc /\ UNCHANGED <<rqVars, upVars, wVars, tVars, bdVars, lbVars, wdVars, epVars, mnVars, pgVars>>

SpecReconcile == InitReconcile /\ [][NextReconcile]_vars

\* the issue fields that occur in the burndown: resolution timestamp and
\* the two effort fields
BurndownSpCombos ==
    {[cf_sp1 |-> {}, cf_sp2 |-> {}],
     [cf_sp1 |-> {}, cf_sp2 |-> {15}],
     [cf_sp1 |-> {20}, cf_sp2 |-> {}],
     [cf_sp1 |-> {0 - 5}, cf_sp2 |-> {}],
     [cf_sp1 |-> {0}, cf_sp2 |-> {15}]}

ResolutionDates ==
    {{}} \cup {{[day |-> d, ok |-> TRUE]} : d \in {0, 2, 5, NumDays, NumDays + 1}}
    \cup {{[day |-> 2, ok |-> FALSE]}}

BurndownIssues ==
    {[issuetype |-> "Story", status |-> "Done", cf_epic |-> {}, cf_sp1 |-> c.cf_sp1,
      cf_sp2 |-> c.cf_sp2, resolutiondate |-> rd] :
        c \in BurndownSpCombos, rd \in ResolutionDates}

\* the dates of the sprint record of the report: absent, unparseable, or a day
SprintDates(ds) ==
    {{}} \cup {{[day |-> 1, ok |-> FALSE]}} \cup {{[day |-> d, ok |-> TRUE]} : d \in ds}

Sprints ==
    [startDate : SprintDates({1, 3}), completeDate : SprintDates({2, 3, NumDays + 2}),
     endDate : SprintDates({NumDays})]

AxisIssues ==
    {[issuetype |-> "Story", status |-> "Done", cf_epic |-> {}, cf_sp1 |-> {20},
      cf_sp2 |-> {}, resolutiondate |-> rd] :
        rd \in {{}, {[day |-> 2, ok |-> TRUE]}, {[day |-> NumDays + 1, ok |-> TRUE]}}}

InitBurndown ==
    /\ InitRq /\ InitW /\ InitT /\ InitRc /\ InitLb /\ InitWd /\ InitEp /\ InitMn /\ InitPg
    /\ srv \in StableServers(ItemKeys)
    /\ \/ /\ attr \in [ItemKeys -> BurndownIssues]
          /\ bd_in \in [committed_sp : {0, 30, 50}, sprint : {StandardSprint},
                        now : {1}]
       \/ /\ attr \in [ItemKeys -> AxisIssues]
          /\ bd_in \in [committed_sp : {0, 30}, sprint : Sprints, now : {1, 4}]
    /\ bd_out = NoBurndown

NextBurndown == NextBd /\ UNCHANGED <<rqVars, upVars, wVars, tVars, rcVars, lbVars, wdVars, epVars, mnVars, pgVars>>

SpecBurndown == InitBurndown /\ [][NextBurndown]_vars

\* the raw rows of a measurements answer: the date is absent, unparseable or
\* a day; each metric is a number of minutes or None
LbDates == {{}, {[day |-> 1, ok |-> FALSE]}} \cup {{[day |-> d, ok |-> TRUE]} : d \in {1, 2, 5}}

LbMetrics ==
    {[coding_min |-> {}, pickup_min |-> {}, review_min |-> {}],
     [coding_min |-> {30}, pickup_min |-> {}, review_min |-> {}],
     [coding_min |-> {90}, pickup_min |-> {60}, review_min |-> {120}],
     [coding_min |-> {}, pickup_min |-> {45}, review_min |-> {15}],
     [coding_min |-> {0}, pickup_min |-> {60}, review_min |-> {}]}

LbRows ==
    {[date |-> d, coding_min |-> m.coding_min, pickup_min |-> m.pickup_min,
      review_min |-> m.review_min] : d \in LbDates, m \in LbMetrics}

LbAnswers == UNION {[1..n -> LbRows] : n \in 0..MaxRows}

LbMetas ==
    [startDate : {{}, {[day |-> 1, ok |-> TRUE]}, {[day |-> 2, ok |-> TRUE]}},
     endDate : {{}, {[day |-> 1, ok |-> FALSE]}, {[day |-> 1, ok |-> TRUE]},
                {[day |-> 3, ok |-> TRUE]}}]

\* main's LinearB step
InitLinearB ==
    /\ InitRq /\ InitW /\ InitT /\ InitRc /\ InitBd /\ InitWd /\ InitEp /\ InitMn /\ InitPg
    /\ srv = NoServer
    /\ attr = WalkAttr
    /\ lb_in \in [token : {TRUE}, answer : {"rows"}, rows : LbAnswers,
                  meta : LbMetas, now : {1}]
              \cup [token : BOOLEAN, answer : {"raise"}, rows : {<<>>},
                    meta : LbMetas, now : {1}]
    /\ lb_out = NoLb

NextLinearB == NextLb /\ UNCHANGED <<rqVars, upVars, wVars, tVars, rcVars, bdVars, wdVars, epVars, mnVars, pgVars>>

SpecLinearB == InitLinearB /\ [][NextLinearB]_vars

\* working_days_since on every pair of dates of the first MaxDay days
InitAgeing ==
    /\ InitRq /\ InitW /\ InitT /\ InitRc /\ InitBd /\ InitLb /\ InitEp /\ InitMn /\ InitPg
    /\ srv = NoServer
    /\ attr = WalkAttr
    /\ wd_in \in [created_dt : {{}} \cup {{d} : d \in 1..MaxDay},
                  today_date : {{}} \cup {{d} : d \in 1..MaxDay},
                  clock : {3, 8}]
    /\ wd_out = {}

NextAgeing ==
    NextWd /\ UNCHANGED <<rqVars, upVars, wVars, tVars, rcVars, bdVars, lbVars, epVars, mnVars, pgVars>>

SpecAgeing == InitAgeing /\ [][NextAgeing]_vars

\* the children of the epic: type, status and creation day, and the
\* sub-tasks they name; the first sub-task may be named by two parents
EpicChildKinds ==
    {[issuetype |-> "Story", status |-> "Done", created |-> {[day |-> 1, ok |-> TRUE]}],
     [issuetype |-> "Story", status |-> "To Do", created |-> {[day |-> 1, ok |-> TRUE]}],
     [issuetype |-> "Spike", status |-> "To Do", created |-> {[day |-> 5, ok |-> TRUE]}],
     [issuetype |-> "Bug", status |-> "To Do", created |-> {[day |-> 1, ok |-> TRUE]}],
     [issuetype |-> "Bug", status |-> "Done", created |-> {[day |-> 5, ok |-> TRUE]}]}

EpicSubtaskLists ==
    {SubSeq([j \in 1..MaxSubs |-> MaxChildren + j], 1, n) : n \in 0..MaxSubs}

EpicChildFields ==
    {[issuetype |-> c.issuetype, status |-> c.status, assignee |-> "Ann",
      created |-> c.created, subtasks |-> st] :
        c \in EpicChildKinds, st \in EpicSubtaskLists}

EpicChildren ==
    UNION {{[k \in 1..n |-> [key |-> k, fields |-> f[k]]] : f \in [1..n -> EpicChildFields]} :
           n \in 0..MaxChildren}

\* the fields of the sub-tasks at the upstream: the first one is done or not
EpicSubs ==
    {[k \in SubKeys |->
         [status |-> IF k = MaxChildren + 1 THEN st ELSE "In Progress",
          assignee |-> "Bob", created |-> {[day |-> 3, ok |-> TRUE]}]] :
        st \in {"Done", "In Progress"}}

\* fetch_epic_action_items against every such epic, with at most one failing
\* request per listing and any set of failing sub-task fetches
InitEpic ==
    /\ InitRq /\ InitW /\ InitT /\ InitRc /\ InitBd /\ InitLb /\ InitWd /\ InitMn /\ InitPg
    /\ srv = NoServer
    /\ attr = WalkAttr
    /\ ep_in \in [children : EpicChildren,
                  sub : EpicSubs,
                  agile_fails : {{}} \cup {{r} : r \in 1..(MaxChildren + 1)},
                  search_fails : {{}, {1}},
                  sub_fails : {{}, {MaxChildren + 1}},
                  clock : {8}]
    /\ ep_out = NoEpicOutput

NextEpic ==
    NextEp /\ UNCHANGED <<rqVars, upVars, wVars, tVars, rcVars, bdVars, lbVars, wdVars, mnVars, pgVars>>

SpecEpic == InitEpic /\ [][NextEpic]_vars

\* the issues of the sprint for the runs of main
MainAttr ==
    [k \in ItemKeys |->
        [issuetype |-> "Story",
         status |-> IF k % 2 = 1 THEN "Done" ELSE "Cancelled",
         cf_epic |-> {}, cf_sp1 |-> {3}, cf_sp2 |-> {}, resolutiondate |-> {}]]

\* the retrospective epic for the runs of main: one open child, listed or
\* with both listings failing
MainEpics ==
    {[children |-> <<[key |-> 1,
                      fields |-> [issuetype |-> "Story", status |-> "To Do",
                                  assignee |-> "Ann",
                                  created |-> {[day |-> 1, ok |-> TRUE]},
                                  subtasks |-> <<>>]]>>,
      sub |-> [k \in SubKeys |->
                  [status |-> "In Progress", assignee |-> "Bob",
                   created |-> {[day |-> 3, ok |-> TRUE]}]],
      agile_fails |-> af, search_fails |-> af,
      sub_fails |-> {}, clock |-> 8] : af \in {{}, {1}}}

\* whole runs of main against every catalog answer
InitMain ==
    /\ InitRq /\ InitW /\ InitT /\ InitRc /\ InitBd /\ InitLb /\ InitWd
    /\ page_up \in {0, 3}
    /\ mn_version = 0
    /\ mn_sent = <<>>
    /\ srv \in StableServers(ItemKeys)
    /\ attr = MainAttr
    /\ ep_in \in MainEpics
    /\ ep_out = NoEpicOutput
    /\ catalog \in CatalogAnswers
    /\ mn_pc = "jira_check"
    /\ mn_log = <<>>
    /\ mn_ids = NoIds
    /\ mn_tab = [b \in MainTables |-> NoResult]

NextMain == NextMn /\ UNCHANGED <<rqVars, wVars, tVars, bdVars, wdVars>>

SpecMain == InitMain /\ [][NextMain]_vars

\* a sprint of TOP_N + 1 issues for the sorted tables
SortKeys == 1..(TOP_N + 1)

\* done stories of the tech-debt epic with an effort of 3, 8 or none
SortIssues ==
    {[issuetype |-> "Story", status |-> "Done", cf_epic |-> {TD_EPIC_KEY},
      cf_sp1 |-> sp, cf_sp2 |-> {}, resolutiondate |-> {}] : sp \in {{}, {3}, {8}}}

\* the same sprint with efforts that rise with the key
SortAttrRising ==
    [k \in SortKeys |->
        [issuetype |-> "Story", status |-> "Done", cf_epic |-> {TD_EPIC_KEY},
         cf_sp1 |-> {k}, cf_sp2 |-> {}, resolutiondate |-> {}]]

\* a sprint report that lists every issue as not completed, estimate 5
SortReport ==
    [completedIssues |-> <<>>,
     issuesNotCompletedInCurrentSprint |->
         [k \in SortKeys |-> [key |-> k, est |-> [value |-> {5}, text |-> {}]]],
     issueKeysAddedDuringSprint |-> {}]

\* children of the epic with distinct statuses, assignees and creation days
SortEpicChildren ==
    {[k \in 1..MaxChildren |->
         [key |-> k,
          fields |-> [issuetype |-> "Story", status |-> f[k].status,
                      assignee |-> f[k].assignee,
                      created |-> {[day |-> f[k].day, ok |-> TRUE]},
                      subtasks |-> IF k = 1 THEN f[k].subtasks ELSE <<>>]]] :
        f \in [1..MaxChildren ->
                  [status : {"Done", "Cancelled", "To Do"}, assignee : {"Ann", "Bob"},
                   day : {1, 5}, subtasks : {<<>>, <<MaxChildren + 1>>}]]}

\* the sub-tasks: the first one is done or not, assigned to Ann
SortEpicSubs ==
    {[k \in SubKeys |->
         [status |-> IF k = MaxChildren + 1 THEN st ELSE "In Progress",
          assignee |-> "Ann", created |-> {[day |-> 3, ok |-> TRUE]}]] :
        st \in {"Done", "In Progress"}}

\* a done child of Bob's naming a done sub-task of Ann's, then open children
SortEpicDefault ==
    [children |->
         [k \in 1..MaxChildren |->
             [key |-> k,
              fields |-> [issuetype |-> "Story",
                          status |-> IF k = 1 THEN "Done" ELSE "To Do",
                          assignee |-> IF k = 1 THEN "Bob" ELSE "Ann",
                          created |-> {[day |-> IF k = 1 THEN 1 ELSE 5, ok |-> TRUE]},
                          subtasks |-> IF k = 1 THEN <<MaxChildren + 1>> ELSE <<>>]]],
     sub |-> [k \in SubKeys |->
                 [status |-> IF k = MaxChildren + 1 THEN "Done" ELSE "In Progress",
                  assignee |-> "Ann", created |-> {[day |-> 3, ok |-> TRUE]}]],
     agile_fails |-> {}, search_fails |-> {}, sub_fails |-> {}, clock |-> 8]

\* the sorted tables: every effort assignment with a fixed epic, or every
\* epic with fixed efforts
InitSort ==
    /\ InitRq /\ InitW /\ InitT /\ InitBd /\ InitLb /\ InitWd /\ InitMn /\ InitPg
    /\ srv \in [issues : {[j \in SortKeys |-> j]}, fails : {{}, {1}},
                skew : {0}, shiftAt : {0}]
    /\ report = SortReport
    /\ vel = NoVelocity
    /\ rc_pc = "start"
    /\ rc_out = <<0, 0, 0, 0>>
    /\ ep_out = NoEpicOutput
    /\ \/ /\ attr \in [SortKeys -> SortIssues]
          /\ ep_in = SortEpicDefault
       \/ /\ attr = SortAttrRising
          /\ ep_in \in [children : SortEpicChildren, sub : SortEpicSubs,
                        agile_fails : {{}}, search_fails : {{}}, sub_fails : {{}},
                        clock : {8}]

NextSort ==
    \/ NextT /\ UNCHANGED <<rqVars, upVars, wVars, rcVars, bdVars, lbVars, wdVars, epVars, mnVars, pgVars>>
    \/ NextEp /\ UNCHANGED <<rqVars, upVars, wVars, tVars, rcVars, bdVars, lbVars, wdVars, mnVars, pgVars>>

SpecSort == InitSort /\ [][NextSort]_vars

\* the default specification: the retrying transport
Init == InitRetry
Next == NextRetry
Spec == Init /\ [][Next]_vars

(***************************************************************************)
(* Claims about request_with_retries (SpecRetry)                           *)
(***************************************************************************)
AllCaught(h) == \A j \in 1..Len(h) : h[j] \in Caught

\* C1: every call of request_with_retries makes at most RETRY_MAX_TRIES (4)
\* attempts; it returns at the first attempt that succeeds and issues none
\* after it; after a failed attempt that is not the 4th it goes on to the
\* next attempt; it raises only after 4 failed attempts of this call; the
\* attempt counter starts at 1 in every call, whatever earlier calls used.
C1_RetryBudget ==
    /\ Len(rq_hist) <= RETRY_MAX_TRIES
    /\ rq_total <= rq_calls * RETRY_MAX_TRIES
    /\ rq_pc = "attempting" =>
          /\ rq_i = Len(rq_hist) + 1
          /\ rq_i <= RETRY_MAX_TRIES
          /\ AllCaught(rq_hist)
    /\ rq_pc = "returned" =>
          /\ rq_hist # <<>>
          /\ rq_hist[Len(rq_hist)] = "ok"
          /\ AllCaught(SubSeq(rq_hist, 1, Len(rq_hist) - 1))
    /\ rq_pc = "raised" =>
          /\ Len(rq_hist) = RETRY_MAX_TRIES
          /\ AllCaught(rq_hist)
    /\ (rq_hist # <<>> /\ AllCaught(rq_hist) /\ Len(rq_hist) < RETRY_MAX_TRIES) =>
          rq_pc = "attempting"

\* a second call that used its own four attempts after a first call that
\* had used four as well
C1_Witness ==
    /\ rq_calls = 2
    /\ rq_pc = "raised"
    /\ rq_total = 2 * RETRY_MAX_TRIES

(***************************************************************************)
(* Claims about agile_sprint_issues_paginated (SpecWalk)                   *)
(***************************************************************************)
WalkEntries(walk) == SelectSeq(w_res.log, LAMBDA e : e.walk = walk)

RECURSIVE ConcatKeys(_)
ConcatKeys(entries) ==
    IF entries = <<>> THEN <<>> ELSE Head(entries).keys \o ConcatKeys(Tail(entries))

ReturnedKeys == [j \in 1..Len(w_res.issues) |-> w_res.issues[j].key]

FirstPageFailedWithFilter ==
    /\ w_pc = "returned"
    /\ w_args.jql # NoJql
    /\ w_res.log # <<>>
    /\ w_res.log[1].got < 0

\* C2: when a filter expression is supplied and the first page request
\* fails, the walker walks again from offset 0 without the filter and
\* returns used_server_filter = false with exactly the items of that
\* unfiltered walk (on an upstream that serves stable, full pages: the
\* sprint's issues in order, up to max_pages pages).
C2_FallbackOnFirstPageFailure ==
    FirstPageFailedWithFilter =>
        /\ w_res.used = FALSE
        /\ WalkEntries(2) # <<>>
        /\ WalkEntries(2)[1].startAt = 0
        /\ \A j \in 1..Len(WalkEntries(2)) : WalkEntries(2)[j].jql = NoJql
        /\ ReturnedKeys = ConcatKeys(WalkEntries(2))
        /\ (srv.skew = 0 /\ srv.shiftAt = 0) =>
              ReturnedKeys = SubSeq(srv.issues, 1,
                                    Min(Len(srv.issues), w_args.max_pages * w_args.page_size))

\* the fallback returned an issue the filter would have dropped
C2_Witness ==
    /\ FirstPageFailedWithFilter
    /\ Len(w_res.issues) >= 2
    /\ \E j \in 1..Len(w_res.issues) : ~JqlHolds(w_args.jql, w_res.issues[j].key)

\* C3: the item list the walker returns never holds two items with the
\* same issue key.
C3_NoDuplicateKeys ==
    w_pc = "returned" =>
        \A i, j \in 1..Len(w_res.issues) :
            i # j => w_res.issues[i].key # w_res.issues[j].key

WalkPagingOk(walk) ==
    LET E == WalkEntries(walk)
    IN /\ Len(E) <= w_args.max_pages
       /\ E # <<>> => E[1].startAt = 0
       /\ \A j \in 1..Len(E) : E[j].maxResults = w_args.page_size
       /\ \A j \in 1..(Len(E) - 1) :
             /\ E[j].got >= w_args.page_size
             /\ E[j + 1].startAt = E[j].startAt + E[j].got

\* C4: each walk requests pages of page_size items from offset 0, advances
\* the offset by the number of items the page returned, stops after the
\* first page shorter than page_size or after max_pages pages.
C4_WalkPaging ==
    w_pc # "idle" => WalkPagingOk(1) /\ WalkPagingOk(2)

(***************************************************************************)
(* Claims about the table builders (SpecTables)                            *)
(***************************************************************************)
\* what the builder would return had the server applied the builder's
\* filter expression to the issues of the walk
RowsUnderServerFilter(b) ==
    BuilderRows(b,
                [t_res.walk EXCEPT
                    !.issues = SelectSeq(t_res.walk.issues,
                                         LAMBDA it : JqlHolds(BuilderJql(b), it.key)),
                    !.used = TRUE],
                BuildSpMapFromReport(report))

FellBack == t_which # "none" /\ ~t_res.failed /\ ~t_res.walk.used

\* C5: whenever the walker returns used_server_filter = false to a builder
\* that passed a status filter, the builder applies the same predicate
\* client-side: its rows are those it returns when the server applied the
\* filter to the same issues.
C5_ClientSideFilterEquivalent ==
    FellBack => t_res.rows = RowsUnderServerFilter(t_which)

(***************************************************************************)
(* Claims about the reconciliation in main (SpecReconcile)                 *)
(***************************************************************************)
\* the value of an optional number, 0 when it is missing
ValueOr0(opt, n) == IF opt = {} THEN n = 0 ELSE n \in opt

ReportCountsIn(out) ==
    /\ out[3] = Cardinality(report.issueKeysAddedDuringSprint)
    /\ out[4] = Len(report.issuesNotCompletedInCurrentSprint)

VelocityHasEntry == vel.ok /\ (vel.str # {} \/ vel.int # {})

\* C6: when the velocity endpoint has an entry for the sprint, committed and
\* completed are that entry's estimated and completed values, and the
\* scope-change and carry-over counts are those computed from the sprint
\* report; the counts come from the report on both paths.
C6_VelocityVerbatimCountsFromReport ==
    rc_pc = "done" =>
        /\ ReportCountsIn(rc_out)
        /\ VelocityHasEntry =>
              \E e \in vel.str \cup vel.int :
                  /\ ValueOr0(e.estimated, rc_out[1])
                  /\ ValueOr0(e.completed, rc_out[2])

\* the velocity numbers differ from the report's sums and the counts are not 0
C6_Witness ==
    /\ rc_pc = "done"
    /\ VelocityHasEntry
    /\ rc_out[1] = 7
    /\ rc_out[2] = 4
    /\ rc_out[1] # CommittedSp(report)
    /\ rc_out[3] > 0
    /\ rc_out[4] > 0

\* C7: when the velocity endpoint answers but has no entry under the string
\* or the integer form of the sprint id, the reconciled tuple is the one
\* compute_committed_completed_from_report gives for the same report; an
\* entry stored under only one of the two forms is found and used.
C7_MissingEntryFallsBack ==
    (rc_pc = "done" /\ vel.ok) =>
        /\ (vel.str = {} /\ vel.int = {}) =>
              rc_out = ComputeCommittedCompletedFromReport(report)
        /\ (vel.str = {} /\ vel.int # {}) =>
              \A e \in vel.int :
                  ValueOr0(e.estimated, rc_out[1]) /\ ValueOr0(e.completed, rc_out[2])
        /\ (vel.str # {} /\ vel.int = {}) =>
              \A e \in vel.str :
                  ValueOr0(e.estimated, rc_out[1]) /\ ValueOr0(e.completed, rc_out[2])

\* the endpoint answered without an entry and the report gives non-zero numbers
C7_Witness ==
    /\ rc_pc = "done"
    /\ vel.ok /\ vel.str = {} /\ vel.int = {}
    /\ rc_out[1] > 0
    /\ rc_out[2] > rc_out[1]
    /\ rc_out[3] > 0

\* the effort of an item of the report: its estimate statistic's numeric
\* value, else its text read as a number, else 0
ItemEffort(it) ==
    IF it.est.value # {} THEN CHOOSE n \in it.est.value : TRUE
    ELSE IF \E t \in it.est.text : ParseFloat(t) # {}
         THEN CHOOSE n \in UNION {ParseFloat(t) : t \in it.est.text} : TRUE
         ELSE 0

RECURSIVE SumEffort(_)
SumEffort(S) ==
    IF S = {} THEN 0
    ELSE LET it == CHOOSE x \in S : TRUE IN ItemEffort(it) + SumEffort(S \ {it})

ReportFallbackTaken == rc_pc = "done" /\ ~VelocityHasEntry

\* C8: compute_committed_completed_from_report gives committed = the effort
\* of the completed and not-completed items that were not added mid-sprint,
\* completed = the effort of all completed items, carry_over_count = the
\* number of not-completed items, scope_change_count = the number of keys
\* added mid-sprint; an item without estimate statistic counts 0.
C8_ReportComputation ==
    ReportFallbackTaken =>
        LET done == Range(report.completedIssues)
            open == Range(report.issuesNotCompletedInCurrentSprint)
            added == report.issueKeysAddedDuringSprint
        IN /\ rc_out[1] = SumEffort({it \in done \cup open : it.key \notin added})
           /\ rc_out[2] = SumEffort(done)
           /\ rc_out[3] = Cardinality(added)
           /\ rc_out[4] = Cardinality(open)

\* a completed item added mid-sprint with effort, beside a not-completed
\* item without estimate statistic
C8_Witness ==
    /\ ReportFallbackTaken
    /\ \E it \in Range(report.completedIssues) :
          it.key \in report.issueKeysAddedDuringSprint /\ ItemEffort(it) > 0
    /\ \E it \in Range(report.issuesNotCompletedInCurrentSprint) :
          it.est = [value |-> {}, text |-> {}]
    /\ rc_out[2] > rc_out[1]
    /\ rc_out[4] = 1

(***************************************************************************)
(* Claims about the burndown series (SpecBurndown)                         *)
(***************************************************************************)
\* C9: the remaining series is non-negative on every day and never
\* increases from one day to the next.
C9_RemainingNonIncreasing ==
    bd_out.state = "done" =>
        /\ \A j \in 1..Len(bd_out.remaining) : bd_out.remaining[j] >= 0
        /\ \A j \in 1..(Len(bd_out.remaining) - 1) :
              bd_out.remaining[j + 1] <= bd_out.remaining[j]

\* the effort of a walked issue: its first effort field that has a value, else 0
IssueEffort(it) ==
    IF FieldGet(it.fields, SP1) # {} THEN CHOOSE n \in it.fields[SP1] : TRUE
    ELSE IF FieldGet(it.fields, SP2) # {} THEN CHOOSE n \in it.fields[SP2] : TRUE
         ELSE 0

\* the resolution day of a walked issue, {} when it has none that parses
ResolvedOn(it) ==
    {ts.day : ts \in {t \in FieldGet(it.fields, "resolutiondate") : t.ok}}

\* S(d): the effort of the walked issues resolved on an axis day not later than d
DoneUpTo(d) ==
    SumSeq([i \in 1..Len(bd_out.issues) |->
               IF \E r \in ResolvedOn(bd_out.issues[i]) :
                      r >= bd_out.days[1] /\ r <= bd_out.days[Len(bd_out.days)] /\ r <= d
               THEN IssueEffort(bd_out.issues[i]) ELSE 0])

\* a sprint of NumDays days whose walked issues are one of effort 20 resolved on day 2
\* and one of effort 15 resolved on day 5, and committed is 50
FiftyTwentyFifteen ==
    /\ bd_out.state = "done"
    /\ bd_in.committed_sp = 50
    /\ bd_out.days = [j \in 1..NumDays |-> j]
    /\ Len(bd_out.issues) = 2
    /\ \E i, j \in 1..2 :
          /\ i # j
          /\ IssueEffort(bd_out.issues[i]) = 20 /\ ResolvedOn(bd_out.issues[i]) = {2}
          /\ IssueEffort(bd_out.issues[j]) = 15 /\ ResolvedOn(bd_out.issues[j]) = {5}

\* C10: remaining[d] = max(committed - S(d), 0) for every axis day d, one
\* value per day; committed = 50 with efforts 20 and 15 resolved on days 2
\* and 5 gives 50 on day 1, 30 from day 2, 15 from day 5 to the last day.
C10_RemainingFormula ==
    bd_out.state = "done" =>
        /\ Len(bd_out.remaining) = Len(bd_out.days)
        /\ \A j \in 1..Len(bd_out.remaining) :
              bd_out.remaining[j] =
                  Max(bd_in.committed_sp - DoneUpTo(bd_out.days[j]), 0)
        /\ FiftyTwentyFifteen =>
              \A j \in 1..Len(bd_out.remaining) :
                  bd_out.remaining[j] = IF j < 2 THEN 50 ELSE IF j < 5 THEN 30 ELSE 15

C10_Witness ==
    /\ FiftyTwentyFifteen
    /\ bd_out.remaining[1] = 50
    /\ bd_out.remaining[2] = 30
    /\ bd_out.remaining[5] = 15
    /\ bd_out.remaining[Len(bd_out.remaining)] = 15

\* C11: the axis has one bucket per calendar day from the sprint's start date
\* to its completion date when there is one, otherwise to its planned end
\* date, both ends included; the remaining and the ideal series have one
\* value per axis day.
C11_AxisAndSeriesLengths ==
    bd_out.state = "done" =>
        LET sp == bd_in.sprint
            days == bd_out.days
        IN /\ \A j \in 1..Len(days) : days[j] = days[1] + (j - 1)
           /\ ParseJiraDate(sp.startDate) # {} => days[1] \in ParseJiraDate(sp.startDate)
           /\ ParseJiraDate(sp.completeDate) # {} =>
                 days[Len(days)] \in ParseJiraDate(sp.completeDate)
           /\ (sp.completeDate = {} /\ ParseJiraDate(sp.endDate) # {}) =>
                 days[Len(days)] \in ParseJiraDate(sp.endDate)
           /\ Len(bd_out.remaining) = Len(days)
           /\ Len(bd_out.ideal) = Len(days)

\* a sprint completed on day 3, before its planned end, charted on days 1..3
C11_Witness ==
    /\ bd_out.state = "done"
    /\ bd_in.sprint.startDate = {[day |-> 1, ok |-> TRUE]}
    /\ bd_in.sprint.completeDate = {[day |-> 3, ok |-> TRUE]}
    /\ bd_in.sprint.endDate = {[day |-> NumDays, ok |-> TRUE]}
    /\ bd_out.days = <<1, 2, 3>>
    /\ Len(bd_out.remaining) = 3
    /\ Len(bd_out.ideal) = 3

(***************************************************************************)
(* Claims about the LinearB day series (SpecLinearB)                       *)
(***************************************************************************)
LbKeys == {"coding_min", "pickup_min", "review_min"}

\* the series main built for a key
LbSeriesOf(key) ==
    IF key = "coding_min" THEN lb_out.coding
    ELSE IF key = "pickup_min" THEN lb_out.pickup ELSE lb_out.review

\* the raw rows dated inside the range
RowsInRange(rows, start_date, end_date) ==
    SelectSeq(rows, LAMBDA row :
        \E d \in DateFromIso(row.date) : start_date <= d /\ d <= end_date)

\* some raw row of the day has a value for the key
DayHasValue(rows, day, key) ==
    \E i \in 1..Len(rows) : day \in DateFromIso(rows[i].date) /\ rows[i][key] # {}

\* C12: for start_date <= end_date the dates and the values both have
\* (end_date - start_date) + 1 elements, the dates go up by one day from
\* start_date to end_date, a day without a raw row or without a value for the
\* key maps to 0, and rows dated outside the range change nothing.
C12_ZeroFilledDaySeries ==
    lb_out.state = "done" =>
        LET start_date == LbStart(lb_in.meta, lb_in.now)
            end_date == LbEnd(lb_in.meta, lb_in.now)
        IN start_date <= end_date =>
            \A key \in LbKeys :
                LET s == LbSeriesOf(key)
                IN /\ Len(s.xs) = end_date - start_date + 1
                   /\ Len(s.ys) = Len(s.xs)
                   /\ s.xs[1] = start_date
                   /\ s.xs[Len(s.xs)] = end_date
                   /\ \A j \in 1..(Len(s.xs) - 1) : s.xs[j + 1] = s.xs[j] + 1
                   /\ \A j \in 1..Len(s.xs) :
                         ~DayHasValue(lb_in.rows, s.xs[j], key) => s.ys[j].num = 0
                   /\ s = LbTimeseriesComplete(
                              RowsInRange(lb_in.rows, start_date, end_date),
                              start_date, end_date, key)

\* days 1..3 with one row on day 2 and one row outside the range: coding is
\* 0, 90/60, 0 hours
C12_Witness ==
    /\ lb_out.state = "done"
    /\ LbStart(lb_in.meta, lb_in.now) = 1
    /\ LbEnd(lb_in.meta, lb_in.now) = 3
    /\ Len(lb_in.rows) = 2
    /\ lb_in.rows[1].date = {[day |-> 2, ok |-> TRUE]}
    /\ lb_in.rows[1].coding_min = {90}
    /\ lb_in.rows[2].date = {[day |-> 5, ok |-> TRUE]}
    /\ lb_in.rows[2].coding_min = {30}
    /\ lb_out.coding.xs = <<1, 2, 3>>
    /\ lb_out.coding.ys = <<ZeroHours, Hours(90), ZeroHours>>

\* C13: the composite cycle series has the length of the coding, pickup and
\* review series, which are built over the same dates, and its value at every
\* index is the sum of the three values at that index.
C13_CycleIsSumOfPhases ==
    lb_out.state = "done" =>
        /\ lb_out.coding.xs = lb_out.pickup.xs
        /\ lb_out.pickup.xs = lb_out.review.xs
        /\ lb_out.cycle.xs = lb_out.coding.xs
        /\ Len(lb_out.cycle.ys) = Len(lb_out.coding.ys)
        /\ Len(lb_out.cycle.ys) = Len(lb_out.pickup.ys)
        /\ Len(lb_out.cycle.ys) = Len(lb_out.review.ys)
        /\ \A j \in 1..Len(lb_out.cycle.ys) :
              /\ lb_out.coding.ys[j].den = MIN_PER_HOUR
              /\ lb_out.pickup.ys[j].den = MIN_PER_HOUR
              /\ lb_out.review.ys[j].den = MIN_PER_HOUR
              /\ lb_out.cycle.ys[j].den = MIN_PER_HOUR
              /\ lb_out.cycle.ys[j].num =
                    lb_out.coding.ys[j].num + lb_out.pickup.ys[j].num
                    + lb_out.review.ys[j].num

\* a day with 90, 60 and 120 minutes in the three phases has a cycle value
\* of 270/60 hours
C13_Witness ==
    /\ lb_out.state = "done"
    /\ \E j \in 1..Len(lb_out.cycle.ys) :
          /\ lb_out.coding.ys[j] = Hours(90)
          /\ lb_out.pickup.ys[j] = Hours(60)
          /\ lb_out.review.ys[j] = Hours(120)
          /\ lb_out.cycle.ys[j] = Hours(270)

(***************************************************************************)
(* Claims about the ageing of an item (SpecAgeing)                         *)
(***************************************************************************)
\* the date the call compares with: today_date, or the clock's date
TodayOf(in) == CHOOSE d \in OrElse(in.today_date, {in.clock}) : TRUE

\* C14: working_days_since(c, t) is the number of Monday-to-Friday days d
\* with c < d <= t; it is 0 when t = c and when t < c, and 1 from a Friday
\* to the following Monday.
C14_WorkingDaysSince ==
    (wd_out # {} /\ wd_in.created_dt # {}) =>
        LET c == CHOOSE d \in wd_in.created_dt : TRUE
            t == TodayOf(wd_in)
            age == CHOOSE n \in wd_out : TRUE
        IN /\ age = Cardinality({d \in (c + 1)..t : (d - 1) % 7 \in 0..4})
           /\ t <= c => age = 0
           /\ age >= 0
           /\ (c = 5 /\ t = 8) => age = 1

\* created on Friday (day 5), checked on the Monday after (day 8)
C14_Witness ==
    /\ wd_in.created_dt = {5}
    /\ wd_in.today_date = {8}
    /\ wd_out = {1}

(***************************************************************************)
(* Claims about effort and exclusion in the table builders (SpecTables)    *)
(***************************************************************************)
\* the issue has a value in the second effort field only
OnlySecondEffortField(k) == attr[k][SP1] = {} /\ attr[k][SP2] # {}

\* C16: the builders that read effort from an issue record request every
\* effort field and scan the whole ordered list: an issue with a value only
\* in the second field has that value as its effort in the builder's row.
C16_EffortFromFullFieldList ==
    (t_which \in {"top5", "techdebt", "carry"} /\ ~t_res.failed) =>
        /\ Range(STORY_POINTS_FIELD_IDS) \subseteq BuilderFields(t_which)
        /\ \A j \in 1..Len(t_res.rows) :
              OnlySecondEffortField(t_res.rows[j].key) =>
                  t_res.rows[j].sp \in attr[t_res.rows[j].key][SP2]

\* C17: no item whose status is cancelled, canceled or not needed, in any
\* letter case, is in the rows of the completion tables or of the hygiene
\* audits, on either walker path.
C17_ExcludedStatusesNeverListed ==
    (t_which \in {"top5", "techdebt", "noepic", "nosp"} /\ ~t_res.failed) =>
        \A j \in 1..Len(t_res.rows) :
            Lower(attr[t_res.rows[j].key].status) \notin AUDIT_EXCLUDED_STATUS_NAMES

\* the effort of an issue for the audit: the value of the first effort field
\* that is present and non-null, {} when there is none
FirstPresentEffort(k) ==
    IF attr[k][SP1] # {} THEN attr[k][SP1] ELSE attr[k][SP2]

\* the keys of the story/task items the audit's walk returned
AuditedKeys ==
    {t_res.walk.issues[i].key : i \in
        {i \in 1..Len(t_res.walk.issues) :
            Lower(attr[t_res.walk.issues[i].key].issuetype) \in AUDIT_ISSUE_TYPES}}

\* C18: stories_tasks_without_sp flags a story/task item exactly when its
\* first present effort field is missing or zero.
C18_FlaggedIffFirstEffortMissingOrZero ==
    (t_which = "nosp" /\ ~t_res.failed) =>
        \A k \in AuditedKeys :
            (\E j \in 1..Len(t_res.rows) : t_res.rows[j].key = k)
                <=> (FirstPresentEffort(k) = {} \/ FirstPresentEffort(k) = {0})

(***************************************************************************)
(* Claims about the previous-retro action items (SpecEpic)                 *)
(***************************************************************************)
InRows(rows, k) == \E j \in 1..Len(rows) : rows[j].key = k

\* k is in exactly one of the two lists, in done_rows exactly when isDone
InExactlyOneList(k, isDone) ==
    /\ InRows(ep_out.done_rows, k) <=> isDone
    /\ InRows(ep_out.open_rows, k) <=> ~isDone

InNeitherList(k) == ~InRows(ep_out.done_rows, k) /\ ~InRows(ep_out.open_rows, k)

\* every open row of key k carries the age computed from the creation date
OpenRowsCarryAge(k, created) ==
    \A j \in 1..Len(ep_out.open_rows) :
        ep_out.open_rows[j].key = k =>
            ep_out.open_rows[j].age = WorkingDaysSince(ParseJiraDate(created), {}, ep_in.clock)

\* the sub-task keys named by the allowed-type issues of a list
SubtasksNamedBy(issues) ==
    UNION {Range(issues[i].fields.subtasks) :
              i \in {i \in 1..Len(issues) : IsAllowedParent(issues[i])}}

CatalogHasEpicLink ==
    \E j \in 1..Len(catalog.fields) : NameStripLower(catalog.fields[j].name) = "epic link"
CatalogHasCandidate ==
    \E j \in 1..Len(catalog.fields) : IsCandidate(catalog.fields[j])

\* discover_field_ids is about to read a catalog that answered
ReadsCatalog == mn_pc = "discover" /\ catalog.ok

\* C15: when the catalog has no field named 'Epic Link' or no numeric
\* story-point candidate, discover_field_ids ends the run with an exit;
\* it is called once and nothing follows an exit; and no board lookup,
\* reconciliation, builder or chart step of main starts unless
\* discover_field_ids ran before it and resolved an epic-link id and at
\* least one effort field id.
C15_DiscoveryBeforeDependents ==
    /\ [][(ReadsCatalog /\ ~(CatalogHasEpicLink /\ CatalogHasCandidate))
             => mn_pc' = "exit"]_vars
    /\ [][mn_pc = "exit" => mn_log' = mn_log]_vars
    /\ [](Cardinality({i \in 1..Len(mn_log) : mn_log[i] = "discover"}) <= 1)
    /\ [](\A i \in 1..Len(mn_log) :
             mn_log[i] \in DependentSteps
                => /\ \E j \in 1..(i - 1) : mn_log[j] = "discover"
                   /\ mn_ids.epic # {}
                   /\ mn_ids.sp_ids # <<>>)

\* a catalog with 'Epic Link' and no candidate: the epic-link id is
\* resolved, no effort id is, and the run ended at discover_field_ids
C15_Witness ==
    /\ mn_ids.epic = {"cf_epic"}
    /\ mn_ids.sp_ids = <<>>
    /\ mn_pc = "exit"
    /\ mn_log = <<"jira_check", "conf_check", "discover">>

\* the builders of derived tables that main calls
DerivedTableBuilders == {"top5", "techdebt", "noepic", "nosp", "carry", "retro"}

\* C20: when a derived-table builder's requests failed, the run is not
\* aborted (the builder gives an empty or partial result and main goes on).
C20_BuilderFailureNeverAborts ==
    \A b \in DerivedTableBuilders :
        mn_tab[b].state = "raised" => mn_pc # "traceback"

\* C23: when all attempts of a call of request_with_retries failed, one
\* failure leaves the call; it carries the error of the last attempt and,
\* when a response body was received, that body.
C23_FailureCarriesLastErrorAndBody ==
    rq_pc = "raised" =>
        /\ rq_exc.type = "RuntimeError"
        /\ rq_exc.last = rq_hist[Len(rq_hist)]
        /\ rq_body # 0 => rq_exc.body = {rq_body}

\* the delays 0.8, 1.6 and 3.2, in tenths of a second
ExpectedDelays == <<8, 16, 32>>

\* C27: the delay slept after failed attempt i (1 <= i < 4) is
\* min(0.8 * 2^(i-1), 6.0), that is 0.8, 1.6, 3.2, each at most 6.0; no
\* delay is slept after the fourth failed attempt nor after a successful one.
C27_BackoffDelays ==
    LET failed == Cardinality({j \in 1..Len(rq_hist) : rq_hist[j] \in Caught})
    IN /\ Len(rq_slept) = Min(failed, RETRY_MAX_TRIES - 1)
       /\ \A j \in 1..Len(rq_slept) :
             /\ rq_slept[j] = ExpectedDelays[j]
             /\ rq_slept[j] = Min(RETRY_BASE_DELAY * Pow2(j - 1), BACKOFF_CAP)
             /\ rq_slept[j] <= BACKOFF_CAP

\* a call that failed four times and slept three times
C27_Witness ==
    /\ rq_pc = "raised"
    /\ Len(rq_hist) = RETRY_MAX_TRIES
    /\ rq_slept = <<8, 16, 32>>

\* a page request of the given walk failed
WalkFailed(walk) == \E j \in 1..Len(WalkEntries(walk)) : WalkEntries(walk)[j].got < 0

\* C28: the walker returns used_server_filter = true exactly when no page
\* request of its first walk failed, with or without a filter expression;
\* when a page request of the first walk failed, at whatever page, the
\* returned items are exactly those of the second walk, which sends no
\* filter; otherwise they are exactly those of the first walk; the call
\* raises exactly when a page request of the second walk failed.
C28_UsedFlagAndNoMixing ==
    w_pc # "idle" =>
        /\ w_pc = "returned" => (w_res.used <=> ~WalkFailed(1))
        /\ (w_pc = "returned" /\ WalkFailed(1)) =>
              /\ ReturnedKeys = ConcatKeys(WalkEntries(2))
              /\ \A j \in 1..Len(WalkEntries(2)) : WalkEntries(2)[j].jql = NoJql
        /\ (w_pc = "returned" /\ ~WalkFailed(1)) =>
              /\ ReturnedKeys = ConcatKeys(WalkEntries(1))
              /\ WalkEntries(2) = <<>>
        /\ w_pc = "raised" <=> WalkFailed(2)
        /\ WalkFailed(2) => WalkFailed(1)

\* the first walk, with a filter, failed at its second page after a first
\* page with items; the second walk returned items
C28_Witness ==
    /\ w_pc = "returned"
    /\ w_args.jql # NoJql
    /\ Len(WalkEntries(1)) = 2
    /\ WalkEntries(1)[1].got > 0
    /\ WalkEntries(1)[2].got < 0
    /\ ~w_res.used
    /\ w_res.issues # <<>>

\* the agile listing failed after it had collected at least one page
AgileFailedAfterAPage ==
    /\ ep_out.state = "returned"
    /\ ep_out.agile.failed
    /\ ep_out.agile.issues # <<>>

\* C30: the search-API listing is used exactly when the agile listing
\* yielded no issue; when an agile page request fails after at least one
\* page was collected, the function works on exactly the pages collected
\* before the failing request, sends no agile request after it, does not
\* use the search API and returns the rows of that partial list.
C30_FallbackOnlyWhenAgileEmpty ==
    ep_out.state = "returned" =>
        /\ ep_out.searched <=> ep_out.agile.issues = <<>>
        /\ AgileFailedAfterAPage =>
              /\ ~ep_out.searched
              /\ ep_out.agile.reqs \in ep_in.agile_fails
              /\ \A r \in ep_in.agile_fails : r >= ep_out.agile.reqs
              /\ ep_out.issues =
                     SubSeq(ep_in.children, 1, (ep_out.agile.reqs - 1) * EpicPageSize)
              /\ \A i \in 1..Len(ep_out.issues) :
                    IsAllowedParent(ep_out.issues[i]) =>
                        InExactlyOneList(ep_out.issues[i].key,
                            StatusCategoryKey(ep_out.issues[i].fields.status) = "done")

\* two children, the second agile page request failed: the rows are those
\* of the first child alone, although the search API would have answered
C30_Witness ==
    /\ AgileFailedAfterAPage
    /\ Len(ep_in.children) = 2
    /\ ep_in.search_fails = {}
    /\ Len(ep_out.issues) = 1
    /\ IsAllowedParent(ep_in.children[1]) /\ IsAllowedParent(ep_in.children[2])
    /\ ep_in.children[1].fields.subtasks = <<>>
    /\ Len(ep_out.open_rows) + Len(ep_out.done_rows) = 1

\* the issues of the builder's walk that top5_completed_stories keeps
Top5Eligible(it) ==
    /\ Lower(it.fields["issuetype"]) \in {"story", "task"}
    /\ t_res.walk.used \/ IsDone(it.fields)

\* C26: carry_over_items_with_sp, top5_completed_stories and
\* completed_tech_debts_with_sp return their rows in non-increasing effort
\* order, top5_completed_stories at most 5 rows none of which has a lower
\* effort than a row it left out; fetch_epic_action_items returns the open
\* rows in non-increasing age order and the done rows in ascending
\* (status, assignee, key) order.
C26_SortOrders ==
    /\ (t_which \in {"carry", "top5", "techdebt"} /\ ~t_res.failed) =>
          \A j \in 1..(Len(t_res.rows) - 1) : t_res.rows[j].sp >= t_res.rows[j + 1].sp
    /\ (t_which = "top5" /\ ~t_res.failed) =>
          LET elig == SelectSeq(t_res.walk.issues, Top5Eligible)
          IN /\ Len(t_res.rows) = Min(TOP_N, Len(elig))
             /\ \A i \in 1..Len(elig) :
                   InRows(t_res.rows, elig[i].key)
                   \/ \A j \in 1..Len(t_res.rows) :
                         t_res.rows[j].sp >= RowSp(elig[i], BuildSpMapFromReport(report))
    /\ ep_out.state = "returned" =>
          /\ \A j \in 1..(Len(ep_out.open_rows) - 1) :
                ep_out.open_rows[j].age >= ep_out.open_rows[j + 1].age
          /\ \A j \in 1..(Len(ep_out.done_rows) - 1) :
                LET a == ep_out.done_rows[j]
                    b == ep_out.done_rows[j + 1]
                IN \/ StrRank(a.status) < StrRank(b.status)
                   \/ /\ a.status = b.status
                      /\ StrRank(a.assignee) < StrRank(b.assignee)
                   \/ /\ a.status = b.status
                      /\ a.assignee = b.assignee
                      /\ a.key <= b.key

\* six stories listed with rising efforts: the five highest are returned,
\* highest first; the done sub-task of Ann's is listed before its parent
C26_Witness ==
    /\ t_which = "top5"
    /\ attr = SortAttrRising
    /\ Len(t_res.walk.issues) = TOP_N + 1
    /\ [j \in 1..Len(t_res.rows) |-> t_res.rows[j].key] = <<6, 5, 4, 3, 2>>
    /\ ep_out.state = "returned"
    /\ Len(ep_out.done_rows) = 2
    /\ ep_out.done_rows[1].key = MaxChildren + 1
    /\ ep_out.done_rows[2].key = 1
    /\ Len(ep_out.open_rows) >= 1

\* the positions in the catalog of the candidates (numeric custom fields
\* whose name contains 'story point'), and of those with the given name
CandidateAt == {j \in 1..Len(catalog.fields) : IsCandidate(catalog.fields[j])}
CandidateNamed(nm) == {j \in CandidateAt : NameStripLower(catalog.fields[j].name) = nm}

\* the least position of a non-empty set of positions
FirstOf(P) == CHOOSE j \in P : \A k \in P : j <= k

\* C25: when discover_field_ids succeeds, STORY_POINTS_FIELD_IDS holds
\* every candidate's id exactly once and the primary id first; the primary
\* is the candidate named 'Story Points' (letter case ignored) if there is
\* one, otherwise the one named 'Story Point', otherwise the first
\* candidate of the catalog.
C25_EffortFieldOrder ==
    [][(ReadsCatalog /\ mn_pc' = "board") =>
          /\ Range(mn_ids'.sp_ids) = {catalog.fields[j].id : j \in CandidateAt}
          /\ Len(mn_ids'.sp_ids) = Cardinality(CandidateAt)
          /\ mn_ids'.sp_id = {mn_ids'.sp_ids[1]}
          /\ mn_ids'.sp_ids[1] =
                catalog.fields[
                    IF CandidateNamed("story points") # {}
                    THEN FirstOf(CandidateNamed("story points"))
                    ELSE IF CandidateNamed("story point") # {}
                         THEN FirstOf(CandidateNamed("story point"))
                         ELSE FirstOf(CandidateAt)].id]_vars

\* the catalog lists 'Story point estimate' before 'story point': the
\* second is the primary and both are kept
C25_Witness ==
    /\ mn_ids.epic = {"cf_epic"}
    /\ mn_ids.sp_id = {"cf_sp3"}
    /\ mn_ids.sp_ids = <<"cf_sp3", "cf_sp2">>
    /\ mn_pc = "done"

\* every value of the series is zero and it has one point per day of the sprint
ZeroFilled(series, in) ==
    /\ Len(series.xs) = LbEnd(in.meta, in.now) - LbStart(in.meta, in.now) + 1
    /\ Len(series.ys) = Len(series.xs)
    /\ \A i \in 1..Len(series.ys) : series.ys[i].num = 0

\* main has been through its LinearB step
LbStepRan == "charts" \in Range(mn_log) /\ lb_out.state # "none"

\* C21: a degraded supplementary source does not end the run. When the
\* velocity call failed or its answer lacks the sprint's entry, the counts
\* are those computed from the sprint report; when the LinearB token is
\* missing the step is skipped without series, when the measurements call
\* raised after its retries there are no series, when the service answered
\* without data the four series are zero-filled; and main goes from the
\* reconcile step to the next step, from the chart block to the labels and
\* from the labels to 'Done'.
C21_DegradedSourcesNeverAbort ==
    /\ []((rc_pc = "done" /\ GetCommittedCompletedFromVelocity(vel) = {})
            => rc_out = ComputeCommittedCompletedFromReport(report))
    /\ [](LbStepRan =>
            /\ ~lb_in.token
                 => lb_out = [NoLb EXCEPT !.state = "skipped"]
            /\ (lb_in.token /\ lb_in.answer = "raise")
                 => lb_out = [NoLb EXCEPT !.state = "unavailable"]
            /\ (lb_in.token /\ lb_in.answer = "rows" /\ lb_in.rows = <<>>)
                 => /\ lb_out.state = "done"
                    /\ ZeroFilled(lb_out.coding, lb_in)
                    /\ ZeroFilled(lb_out.pickup, lb_in)
                    /\ ZeroFilled(lb_out.review, lb_in)
                    /\ ZeroFilled(lb_out.cycle, lb_in))
    /\ [][mn_pc = "reconcile" => mn_pc' = "top5"]_vars
    /\ [][mn_pc = "charts" => mn_pc' = "labels"]_vars
    /\ [][mn_pc = "labels" => mn_pc' = "done"]_vars

\* the velocity call failed, the report's own counts (not zero) were used,
\* the measurements service answered without data, and the run is done
C21_Witness ==
    /\ mn_pc = "done"
    /\ vel = NoVelocity
    /\ rc_out = ComputeCommittedCompletedFromReport(report)
    /\ rc_out # <<0, 0, 0, 0>>
    /\ lb_in.token /\ lb_in.answer = "rows" /\ lb_in.rows = <<>>
    /\ lb_out.state = "done"
    /\ ZeroFilled(lb_out.cycle, lb_in)

\* C22: once main has started its publishing steps (the initial page, the
\* chart block with the uploads and the final update, the labels), the run
\* is not ended by an exception: it goes on to 'Done' whatever the outcome
\* of the page creation, page update, upload and labeling calls.
C22_PublishingNeverAborts ==
    "page" \in Range(mn_log) => mn_pc \in {"charts", "labels", "done"}

\* C29: the version number main sends with a page update is one more than
\* the page's version at that moment: for an existing page at version v the
\* initial update sends v + 1 and the final update v + 2, for a page main
\* created (version 1) the final update sends 2; main sends at most two
\* updates, the initial one first.
C29_UpdateVersions ==
    /\ Len(mn_sent) <= 2
    /\ \A i \in 1..Len(mn_sent) :
          /\ mn_sent[i].sent = mn_sent[i].at + 1
          /\ mn_sent[i].kind = "initial" => i = 1
          /\ mn_sent[i].kind = "final" /\ i = 1 => mn_sent[i].sent = 2
          /\ mn_sent[i].kind = "final" /\ i = 2
                => /\ mn_sent[1].kind = "initial"
                   /\ mn_sent[i].sent = mn_sent[1].at + 2

\* an existing page at version 3: the initial update sent 4, the final
\* update sent 5, the page is at version 5 and the run is done
C29_Witness ==
    /\ mn_sent = <<[kind |-> "initial", sent |-> 4, at |-> 3],
                   [kind |-> "final", sent |-> 5, at |-> 4]>>
    /\ page_up = 5
    /\ mn_pc = "done"

\* main created the page: the final update sent 2
C29_CreatedPage ==
    /\ mn_sent = <<[kind |-> "final", sent |-> 2, at |-> 1]>>
    /\ page_up = 2
    /\ mn_pc = "done"

\* the number of single-issue fetches made for the key k
FetchesOf(k) == Cardinality({j \in 1..Len(ep_out.fetched) : ep_out.fetched[j] = k})

\* C24: within one call of fetch_epic_action_items the single-issue fetch
\* is made at most once per issue key, also for a sub-task that is listed
\* under two parents.
C24_FetchOncePerKey ==
    ep_out.state = "returned" => \A k \in Range(ep_out.fetched) : FetchesOf(k) <= 1

====
